---- MODULE Spec2Model ----
(***************************************************************************)
(* A model of feather.fm's clustering pipeline (group_playlist.py) and of  *)
(* the playlist creator it drives (create_playlist.py).                    *)
(*                                                                         *)
(* The specifications share the pure operators below:                      *)
(*   SpecMain         main(): load / merge, cluster, report, playlists,    *)
(*                    save (regular mode) and the playlist-only mode;      *)
(*                    SpecMainLive adds the fairness of its last steps     *)
(*   SpecMaterialize  create_playlists_from_clusters driving the creator   *)
(*   SpecCreator      SpotifyPlaylistCreator.create_multiple_playlists     *)
(*   SpecTokens       one call of refresh_access_token, get_current_user   *)
(*   SpecKMeans       find_optimal_k and perform_kmeans_clustering         *)
(*   SpecHdbscan      perform_hdbscan_clustering                           *)
(*   SpecStage        the objects of the two clustering functions          *)
(*   SpecConvert      convert_http_to_spotify_uri                          *)
(*   SpecLoader       load_embeddings_from_csv and the merge               *)
(*   SpecReload       save_results, then load_clustered_csv                *)
(*   SpecGenerate     generate_audio_embeddings_csv and its worker threads *)
(*   SpecDelete       delete_playlists_with_phrase                         *)
(* A specification pins the variables of the other parts to their idle     *)
(* values.                                                                 *)
(***************************************************************************)
EXTENDS Integers, Sequences, FiniteSets, TLC

VARIABLES
    \* ---- main() ----
    args,                \* parsed command line
    csv_files,           \* the contents of the files named on the command line
    main_pc,             \* position of main()
    songs_df,            \* loader / merger output: the record table
    embeddings,          \* loader / merger output: the feature matrix
    songs_df_clustered,  \* the record table with its cluster column
    stages,              \* history: the stages main() has run, in order
    output_file,         \* the Clustered Result Table written by save_results
    \* ---- create_playlists_from_clusters ----
    mat_pc,              \* position of create_playlists_from_clusters
    mat_input,           \* the clustered table it was called with
    playlist_data,       \* the requests it built
    mat_warnings,        \* history: cluster label -> invalid URIs counted
    created_playlists,   \* its return value
    \* ---- SpotifyPlaylistCreator ----
    self,                \* the creator object's fields (and request counters)
    cmp_pc,              \* position of create_multiple_playlists
    cmp_input,           \* its playlist_data argument
    cmp_i,               \* the loop's position in playlist_data
    results,             \* its result list
    attempts,            \* history: one entry per request the loop ran
    service,             \* the playlists that exist on the service
    \* ---- k-means ----
    km_pc,               \* position of perform_kmeans_clustering
    km_in,               \* its arguments and what the fits report
    km_out,              \* what it computed
    \* ---- convert_http_to_spotify_uri ----
    cv_pc,               \* position of the call
    cv_in,               \* its argument
    cv_out,              \* its return value
    \* ---- load_embeddings_from_csv, load_and_concatenate_embeddings ----
    ld_pc,               \* position of the call
    ld_in,               \* the function called and the files it is given
    ld_out,              \* what it returned
    \* ---- perform_hdbscan_clustering ----
    hdb_pc,              \* position of perform_hdbscan_clustering
    hdb_in,              \* its arguments
    hdb_out,             \* the labels and the statistics it prints
    \* ---- save_results, then load_clustered_csv ----
    rt_pc,               \* position of the round trip
    rt_in,               \* the Clustered Result Table in memory
    rt_out,              \* the file written and the table read back
    \* ---- SpotifyPlaylistCreator: one call of a token function ----
    tk_pc,               \* position of the call
    tk_in,               \* the function called and the creator it is called on
    tk_out,              \* the creator after the call and what the call returned
    \* ---- the clustering stage's objects ----
    st_pc,               \* position of perform_*_clustering
    st_in,               \* its arguments: references to the objects of the heap
    st_locals,           \* its local names: references, and the label vector
    heap,                \* the tables and matrices that exist, by reference
    \* ---- generate_audio_embeddings_csv ----
    ge_pc,               \* position of the main thread
    ge_in,               \* track_files: what each track's embedding call will do
    futures,             \* the state of each submitted task
    collected,           \* the tasks whose result the main thread has taken, in order
    csv_rows,            \* the rows written to the CSV file, in order
    \* ---- delete_playlists_with_phrase ----
    dp_pc,               \* position of delete_playlists_with_phrase
    dp_in,               \* its arguments, the service's playlists, the answers typed
    dp_out               \* what it found, unfollowed and counted

mainVars == <<args, csv_files, main_pc, songs_df, embeddings,
              songs_df_clustered, stages, output_file>>
matVars  == <<mat_pc, mat_input, playlist_data, mat_warnings, created_playlists>>
cmpVars  == <<self, cmp_pc, cmp_input, cmp_i, results, attempts, service>>
kmVars   == <<km_pc, km_in, km_out>>
cvVars   == <<cv_pc, cv_in, cv_out>>
ldVars   == <<ld_pc, ld_in, ld_out>>
hdbVars  == <<hdb_pc, hdb_in, hdb_out>>
rtVars   == <<rt_pc, rt_in, rt_out>>
tkVars   == <<tk_pc, tk_in, tk_out>>
stVars   == <<st_pc, st_in, st_locals, heap>>
geVars   == <<ge_pc, ge_in, futures, collected, csv_rows>>
dpVars   == <<dp_pc, dp_in, dp_out>>
vars     == <<mainVars, matVars, cmpVars, kmVars, cvVars, ldVars, hdbVars, rtVars,
              tkVars, stVars, geVars, dpVars>>

(***************************************************************************)
(* Bounds of the model.                                                    *)
(***************************************************************************)
MaxSources   == 2   \* files on the command line
MaxTotalRows == 3   \* rows over all the files of one run

(***************************************************************************)
(* Generic sequence helpers.                                               *)
(***************************************************************************)
Range(s) == {s[i] : i \in 1..Len(s)}

RECURSIVE Flatten(_)
\* np.concatenate of a list of 1-D arrays
Flatten(ss) == IF ss = <<>> THEN <<>> ELSE Head(ss) \o Flatten(Tail(ss))

RECURSIVE SumLens(_)
SumLens(ss) == IF ss = <<>> THEN 0 ELSE Len(Head(ss)) + SumLens(Tail(ss))

RECURSIVE SeqsUpTo(_, _)
\* every sequence over S of length <= n
SeqsUpTo(S, n) ==
    IF n = 0 THEN {<<>>}
    ELSE LET shorter == SeqsUpTo(S, n - 1)
         IN  shorter \cup {Append(s, x) : s \in {t \in shorter : Len(t) = n - 1}, x \in S}

(***************************************************************************)
(* Python values that reach the string functions.  A str is a sequence of  *)
(* tokens; each token stands for the literal text of the same name.        *)
(***************************************************************************)
Str(s)  == [t |-> "str", s |-> s]
NaN     == [t |-> "float", s |-> <<>>]   \* pandas' missing cell
NoneV   == [t |-> "None", s |-> <<>>]

PREFIX  == "spotify:track:"
SCHEME  == "https://"
HOST    == "open.spotify.com/"
TRACK   == "track/"
QMARK   == "?"
ID22    == "4uLU6hMCjMI75M1A2tKUQC"   \* a 22-character track identifier
QUERY   == "si=abc"
JUNK    == "not-a-uri"

TokLen(tok) ==
    CASE tok = PREFIX -> 14
      [] tok = SCHEME -> 8
      [] tok = HOST   -> 17
      [] tok = TRACK  -> 6
      [] tok = QMARK  -> 1
      [] tok = ID22   -> 22
      [] tok = QUERY  -> 6
      [] tok = JUNK   -> 9

RECURSIVE StrLen(_)
\* len(s)
StrLen(s) == IF s = <<>> THEN 0 ELSE TokLen(Head(s)) + StrLen(Tail(s))

\* s.startswith('spotify:track:')
StartsWithPrefix(s) == Len(s) >= 1 /\ s[1] = PREFIX

\* 'open.spotify.com/track/' in s
ContainsWebTrack(s) == \E i \in 1..(Len(s) - 1) : s[i] = HOST /\ s[i + 1] = TRACK

\* s.split(tok)[-1]
AfterLast(s, tok) ==
    LET hits == {i \in 1..Len(s) : s[i] = tok}
    IN  IF hits = {} THEN s
        ELSE LET last == CHOOSE i \in hits : \A j \in hits : j <= i
             IN  SubSeq(s, last + 1, Len(s))

\* s.split(tok)[0]
BeforeFirst(s, tok) ==
    LET hits == {i \in 1..Len(s) : s[i] = tok}
    IN  IF hits = {} THEN s
        ELSE LET first == CHOOSE i \in hits : \A j \in hits : i <= j
             IN  SubSeq(s, 1, first - 1)

\* http_url.startswith(...) on a value that is no str raises AttributeError
ConvertRaises(v) == v.t # "str"

\* convert_http_to_spotify_uri, for a str argument
convert_http_to_spotify_uri(v) ==
    IF StartsWithPrefix(v.s) THEN v
    ELSE IF ContainsWebTrack(v.s)
         THEN Str(<<PREFIX>> \o BeforeFirst(AfterLast(v.s, TRACK), QMARK))
         ELSE NoneV

\* validate_spotify_uri
validate_spotify_uri(v) == StartsWithPrefix(v.s) /\ StrLen(v.s) = 36

NATIVE_URI == Str(<<PREFIX, ID22>>)
WEB_URI    == Str(<<SCHEME, HOST, TRACK, ID22, QMARK, QUERY>>)
OTHER_URI  == Str(<<JUNK>>)
EMPTY_STR  == Str(<<>>)

(***************************************************************************)
(* Embedding tables.  A file is a sequence of rows; an embedding cell      *)
(* either deserializes (ast.literal_eval) to a list of numbers or raises.  *)
(***************************************************************************)
Identities == {<<Str(<<"A">>), Str(<<"x">>)>>, <<Str(<<"B">>), Str(<<"x">>)>>}

\* the embedding written in row r of file t: Dim(t) numbers naming (t, r)
Dim(t) == IF t = 2 THEN 2 ELSE 1
EmbeddingOf(t, r) == [i \in 1..Dim(t) |-> 10 * t + r]

\* short: the row ends before its song_uri field (the header names song_uri
\* last); csv.DictReader gives the missing field its restval, None
RowShapes ==
    [key : Identities, parses : BOOLEAN, short : {FALSE}]
    \cup [key : Identities, parses : {TRUE}, short : {TRUE}]

MkRow(t, r, shape) ==
    [song_name |-> shape.key[1], artist |-> shape.key[2],
     song_uri  |-> IF shape.short THEN NoneV ELSE NATIVE_URI,
     embedding |-> [parses |-> shape.parses,
                    value  |-> IF shape.parses THEN EmbeddingOf(t, r) ELSE <<>>,
                    error  |-> IF shape.parses THEN "none" ELSE "ValueError"]]

EmbeddingColumns == {"song_name", "artist", "song_uri", "embedding"}
ClusteredColumns == {"song_name", "artist", "song_uri", "cluster"}

MkFile(t, shapes) ==
    [columns |-> EmbeddingColumns,
     rows    |-> [r \in 1..Len(shapes) |-> MkRow(t, r, shapes[r])]]

RECURSIVE FileShapeLists(_, _)
\* every list of n files' row shapes with at most `budget` rows in all
FileShapeLists(n, budget) ==
    IF n = 0 THEN {<<>>}
    ELSE UNION { {<<f>> \o rest : rest \in FileShapeLists(n - 1, budget - Len(f))}
                 : f \in SeqsUpTo(RowShapes, budget) }

EmbeddingFileLists ==
    UNION { { [t \in 1..n |-> MkFile(t, shapes[t])] : shapes \in FileShapeLists(n, MaxTotalRows) }
            : n \in 1..MaxSources }

(***************************************************************************)
(* load_embeddings_from_csv                                                *)
(***************************************************************************)
SongInfo(row) ==
    [song_name |-> row.song_name, artist |-> row.artist, song_uri |-> row.song_uri]

RECURSIVE ParsedRows(_)
\* the rows whose embedding cell deserializes, in file order
ParsedRows(rows) ==
    IF rows = <<>> THEN <<>>
    ELSE IF Head(rows).embedding.parses
         THEN <<Head(rows)>> \o ParsedRows(Tail(rows))
         ELSE ParsedRows(Tail(rows))

\* np.array(list) is a 2-D matrix only for a non-empty list of equal-length rows
IsMatrix(vectors) ==
    /\ vectors # <<>>
    /\ \A i, j \in 1..Len(vectors) : Len(vectors[i]) = Len(vectors[j])

LoadFailed == [raised |-> TRUE, songs_df |-> <<>>, embeddings |-> <<>>]

\* what ast.literal_eval raises that "except (ValueError, SyntaxError)" lets through
Uncaught(row) ==
    ~row.embedding.parses /\ row.embedding.error \notin {"ValueError", "SyntaxError"}

load_embeddings_from_csv(file) ==
    IF ~(EmbeddingColumns \subseteq file.columns) /\ file.rows # <<>>
    THEN LoadFailed   \* row['embedding'] (or another column): KeyError
    ELSE IF \E r \in 1..Len(file.rows) : Uncaught(file.rows[r])
    THEN LoadFailed   \* the exception leaves the loop and the function
    ELSE
    LET kept    == IF file.rows = <<>> THEN <<>> ELSE ParsedRows(file.rows)
        vectors == [i \in 1..Len(kept) |-> kept[i].embedding.value]
    IN  IF IsMatrix(vectors)
        THEN [raised |-> FALSE,
              songs_df |-> [i \in 1..Len(kept) |-> SongInfo(kept[i])],
              embeddings |-> vectors]
        ELSE LoadFailed   \* embeddings_array.shape[1] on what is not a matrix

(***************************************************************************)
(* load_and_concatenate_embeddings                                         *)
(***************************************************************************)
SongKey(row) == <<row.song_name, row.artist>>

KeyIndex(all, key) ==
    LET hits == {i \in 1..Len(all) : all[i].key = key}
    IN  IF hits = {} THEN 0 ELSE CHOOSE i \in hits : TRUE

RECURSIVE AddRows(_, _, _, _)
\* the loop over songs_df.iterrows() from row i on
AddRows(all, df, emb, i) ==
    IF i > Len(df) THEN all
    ELSE LET key == SongKey(df[i])
             at  == KeyIndex(all, key)
             nxt == IF at = 0
                    THEN Append(all, [key |-> key, song_info |-> df[i],
                                      embeddings |-> <<emb[i]>>])
                    ELSE [all EXCEPT ![at].embeddings = Append(@, emb[i])]
         IN  AddRows(nxt, df, emb, i + 1)

RECURSIVE LoadAll(_, _, _)
\* the loop over csv_paths from file t on; all_songs_data keeps insertion order
LoadAll(all, files, t) ==
    IF t > Len(files) THEN [raised |-> FALSE, all |-> all]
    ELSE LET one == load_embeddings_from_csv(files[t])
         IN  IF one.raised THEN [raised |-> TRUE, all |-> <<>>]
             ELSE LoadAll(AddRows(all, one.songs_df, one.embeddings, 1), files, t + 1)

\* the filter of the songs that are kept
IsComplete(data, n_files) == Len(data.embeddings) = n_files

RECURSIVE CompleteSongs(_, _)
CompleteSongs(all, n_files) ==
    IF all = <<>> THEN <<>>
    ELSE IF IsComplete(Head(all), n_files)
         THEN <<Head(all)>> \o CompleteSongs(Tail(all), n_files)
         ELSE CompleteSongs(Tail(all), n_files)

\* lines 115-170: the merge of the tables by identity
MergeTables(files) ==
    LET loaded == LoadAll(<<>>, files, 1)
    IN  IF loaded.raised
        THEN LoadFailed
        ELSE LET complete == CompleteSongs(loaded.all, Len(files))
                 vectors  == [i \in 1..Len(complete) |-> Flatten(complete[i].embeddings)]
             IN  IF complete = <<>> \/ ~IsMatrix(vectors)
                 THEN LoadFailed   \* ValueError("No songs found ..."), or a ragged matrix
                 ELSE [raised |-> FALSE,
                       songs_df |-> [i \in 1..Len(complete) |-> complete[i].song_info],
                       embeddings |-> vectors]

\* a merge that treats a single table like several
load_and_concatenate_embeddings_NoPassThrough(files) == MergeTables(files)

load_and_concatenate_embeddings(files) ==
    IF Len(files) = 1 THEN load_embeddings_from_csv(files[1])
    ELSE MergeTables(files)

(***************************************************************************)
(* Clustered Result Tables: load_clustered_csv and save_results.           *)
(***************************************************************************)
ClusterLabels == {-1, 0, 1}

\* some of the texts pandas.read_csv takes for a missing value by default
NA_VALUES == {"NA", "null", "nan"}

\* a text read_csv parses as a number, and what to_csv writes for that number
NUMERAL  == "007"
Number(text) == [t |-> "number", s |-> <<"7">>]

IsNA(cell) == cell.s = <<>> \/ (Len(cell.s) = 1 /\ cell.s[1] \in NA_VALUES)

IsNumeral(cell) == cell.s = <<NUMERAL>>

\* pandas.read_csv of one cell of a text column: a missing value is NaN
ReadCsvCell(cell) == IF IsNA(cell) THEN NaN ELSE cell

\* pandas.read_csv of one column: a column of numerals (and missing values)
\* is read as numbers, any other as text
ReadCsvColumn(cells) ==
    IF /\ \A i \in 1..Len(cells) : IsNA(cells[i]) \/ IsNumeral(cells[i])
       /\ \E i \in 1..Len(cells) : IsNumeral(cells[i])
    THEN [i \in 1..Len(cells) |-> IF IsNA(cells[i]) THEN NaN ELSE Number(cells[i].s)]
    ELSE [i \in 1..Len(cells) |-> ReadCsvCell(cells[i])]

\* csv.DictReader of one text cell: the text itself
DictReaderCell(cell) == cell

\* DataFrame.to_csv of one value: a str is written as its text, a number as
\* its digits, NaN as an empty cell
ToCsvCell(v) == IF v.t \in {"str", "number"} THEN Str(v.s) ELSE EMPTY_STR

RequiredColumns == {"song_name", "artist", "song_uri", "cluster"}

ClusteredFailed == [raised |-> TRUE, df |-> <<>>]

load_clustered_csv(file) ==
    IF ~(RequiredColumns \subseteq file.columns)
    THEN ClusteredFailed   \* ValueError("Missing required columns"), re-raised
    ELSE LET n       == Len(file.rows)
             names   == ReadCsvColumn([i \in 1..n |-> file.rows[i].song_name])
             artists == ReadCsvColumn([i \in 1..n |-> file.rows[i].artist])
             uris    == ReadCsvColumn([i \in 1..n |-> file.rows[i].song_uri])
         IN  [raised |-> FALSE,
              df |-> [i \in 1..n |->
                        [song_name |-> names[i], artist |-> artists[i],
                         song_uri |-> uris[i], cluster |-> file.rows[i].cluster]]]

save_results(df) ==
    [written |-> TRUE,
     columns |-> ClusteredColumns,
     rows    |-> [i \in 1..Len(df) |->
                    [song_name |-> ToCsvCell(df[i].song_name),
                     artist    |-> ToCsvCell(df[i].artist),
                     song_uri  |-> ToCsvCell(df[i].song_uri),
                     cluster   |-> df[i].cluster]]]

NoFile == [written |-> FALSE, columns |-> {}, rows |-> <<>>]

(***************************************************************************)
(* create_playlists_from_clusters: the requests it builds.                 *)
(***************************************************************************)
RECURSIVE SortedSeq(_)
\* sorted(set of integers)
SortedSeq(S) ==
    IF S = {} THEN <<>>
    ELSE LET least == CHOOSE x \in S : \A y \in S : x <= y
         IN  <<least>> \o SortedSeq(S \ {least})

\* sorted(songs_df_clustered['cluster'].unique())
ClusterIds(df) == SortedSeq({df[i].cluster : i \in 1..Len(df)})

RECURSIVE ClusterSongs(_, _)
\* songs_df_clustered[songs_df_clustered['cluster'] == cluster_id], in row order
ClusterSongs(df, cluster_id) ==
    IF df = <<>> THEN <<>>
    ELSE IF Head(df).cluster = cluster_id
         THEN <<Head(df)>> \o ClusterSongs(Tail(df), cluster_id)
         ELSE ClusterSongs(Tail(df), cluster_id)

RECURSIVE TrackUris(_)
\* the URIs of the songs whose conversion is truthy, in row order
TrackUris(songs) ==
    IF songs = <<>> THEN <<>>
    ELSE LET uri == convert_http_to_spotify_uri(Head(songs).song_uri)
         IN  IF uri.t = "str" /\ uri.s # <<>>
             THEN <<uri>> \o TrackUris(Tail(songs))
             ELSE TrackUris(Tail(songs))

RECURSIVE InvalidUris(_)
InvalidUris(songs) ==
    IF songs = <<>> THEN <<>>
    ELSE LET uri == convert_http_to_spotify_uri(Head(songs).song_uri)
         IN  IF uri.t = "str" /\ uri.s # <<>>
             THEN InvalidUris(Tail(songs))
             ELSE <<Head(songs).song_uri>> \o InvalidUris(Tail(songs))

\* a loop without the "if not track_uris: continue" of lines 397-399
HasRequest_Always(track_uris, cluster_id) == TRUE

\* whether a cluster gets a request
HasRequest(track_uris, cluster_id) == track_uris # <<>>

MkRequest(base_name, cluster_id, track_uris) ==
    [name        |-> <<base_name, cluster_id>>,   \* f"{base_name} {cluster_id}"
     track_uris  |-> track_uris,
     description |-> Len(track_uris),              \* "Contains {n} similar songs."
     public      |-> FALSE]

RECURSIVE BuildLoop(_, _, _, _)
\* the loop over the cluster ids from position c on
BuildLoop(df, base_name, ids, c) ==
    IF c > Len(ids) THEN [raised |-> FALSE, playlist_data |-> <<>>, warnings |-> <<>>]
    ELSE LET cluster_id == ids[c]
             songs      == ClusterSongs(df, cluster_id)
         IN  IF \E i \in 1..Len(songs) : ConvertRaises(songs[i].song_uri)
             THEN [raised |-> TRUE, playlist_data |-> <<>>, warnings |-> <<>>]
             ELSE LET track_uris == TrackUris(songs)
                      invalid    == InvalidUris(songs)
                      rest       == BuildLoop(df, base_name, ids, c + 1)
                      warn       == IF invalid # <<>>
                                    THEN <<[cluster |-> cluster_id, invalid |-> Len(invalid)]>>
                                    ELSE <<>>
                      req        == IF HasRequest(track_uris, cluster_id)
                                    THEN <<MkRequest(base_name, cluster_id, track_uris)>>
                                    ELSE <<>>
                  IN  IF rest.raised THEN rest
                      ELSE [raised |-> FALSE,
                            playlist_data |-> req \o rest.playlist_data,
                            warnings |-> warn \o rest.warnings]

BuildRequests(df, base_name) == BuildLoop(df, base_name, ClusterIds(df), 1)

(***************************************************************************)
(* Inputs: Clustered Result Table files.                                   *)
(***************************************************************************)
MkClusteredRow(shape) ==
    [song_name |-> Str(<<"A">>), artist |-> Str(<<"x">>),
     song_uri |-> shape.uri, cluster |-> shape.cluster]

ClusteredFiles(uris, labels, max_rows) ==
    { [columns |-> ClusteredColumns,
       rows    |-> [i \in 1..Len(shapes) |-> MkClusteredRow(shapes[i])]]
      : shapes \in SeqsUpTo([uri : uris, cluster : labels], max_rows) }

(***************************************************************************)
(* main()                                                                  *)
(***************************************************************************)
PLAYLIST_NAME == "Music Cluster"

\* the label vectors a clustering engine may hand back to main() for n rows;
\* the engines themselves are the subject of SpecKMeans
MainLabelings(n) ==
    {[i \in 1..n |-> 0], [i \in 1..n |-> i % 2], [i \in 1..n |-> -1]}

WithCluster(df, labels) ==
    [i \in 1..Len(df) |->
        [song_name |-> df[i].song_name, artist |-> df[i].artist,
         song_uri |-> df[i].song_uri, cluster |-> labels[i]]]

\* the file without one of its columns
DropColumn(file, column) ==
    [columns |-> file.columns \ {column},
     rows    |-> [i \in 1..Len(file.rows) |->
                    [k \in (DOMAIN file.rows[i]) \ {column} |-> file.rows[i][k]]]]

\* Clustered Result Tables that lack one required column
MissingColumnFiles ==
    {DropColumn(f, c) : f \in ClusteredFiles({NATIVE_URI}, {0}, 1), c \in ClusteredColumns}

MainInputs ==
    ([playlist_only : {FALSE}, create_playlists : BOOLEAN] \X EmbeddingFileLists)
    \cup
    ([playlist_only : {TRUE}, create_playlists : {FALSE}]
        \X (EmbeddingFileLists
            \cup {<<f>> : f \in ClusteredFiles({NATIVE_URI, EMPTY_STR}, {-1, 0}, MaxTotalRows)}
            \cup {<<f>> : f \in MissingColumnFiles}
            \cup {<<f, f>> : f \in ClusteredFiles({NATIVE_URI}, {0}, 1)}))

\* what main() never touches
mainFrame == <<mat_pc, mat_input, mat_warnings, created_playlists,
               self, cmp_pc, cmp_input, cmp_i, results, attempts, service,
               km_pc, km_in, km_out, cvVars, ldVars, hdbVars, rtVars,
    tkVars, stVars, geVars, dpVars>>

MainIdle ==
    /\ args = [playlist_only |-> FALSE, create_playlists |-> FALSE]
    /\ csv_files = <<>>
    /\ main_pc = "idle"
    /\ songs_df = <<>>
    /\ embeddings = <<>>
    /\ songs_df_clustered = <<>>
    /\ stages = <<>>
    /\ output_file = NoFile

\* lines 484-500: the files must exist; playlist-only mode takes one file
MainStart ==
    /\ UNCHANGED mainFrame
    /\ main_pc = "start"
    /\ \E exists \in BOOLEAN :
        IF ~exists
        THEN main_pc' = "done" /\ stages' = <<"file_not_found">>
        ELSE IF args.playlist_only
             THEN IF Len(csv_files) > 1
                  THEN main_pc' = "done" /\ stages' = <<"one_file_only">>
                  ELSE main_pc' = "po_load" /\ stages' = stages
             ELSE main_pc' = "load" /\ stages' = stages
    /\ UNCHANGED <<args, csv_files, songs_df, embeddings, songs_df_clustered,
                   output_file, playlist_data>>

\* a load whose failure does not end the run
MainPlaylistOnlyLoad_GoesOn ==
    /\ UNCHANGED mainFrame
    /\ main_pc = "po_load"
    /\ songs_df_clustered' = load_clustered_csv(csv_files[1]).df
    /\ main_pc' = "po_playlists"
    /\ stages' = stages \o <<"load_clustered", "summary">>
    /\ UNCHANGED <<args, csv_files, songs_df, embeddings, output_file, playlist_data>>

\* lines 502-513: load_clustered_csv and the cluster summary
MainPlaylistOnlyLoad ==
    /\ UNCHANGED mainFrame
    /\ main_pc = "po_load"
    /\ LET got == load_clustered_csv(csv_files[1])
       IN  IF got.raised
           THEN /\ main_pc' = "done"          \* except Exception: print, return
                /\ stages' = Append(stages, "error")
                /\ songs_df_clustered' = songs_df_clustered
           ELSE /\ main_pc' = "po_playlists"
                /\ stages' = stages \o <<"load_clustered", "summary">>
                /\ songs_df_clustered' = got.df
    /\ UNCHANGED <<args, csv_files, songs_df, embeddings, output_file, playlist_data>>

\* a playlist-only mode that falls through to save_results
MainPlaylistOnlyCreate_ThenSave ==
    /\ UNCHANGED mainFrame
    /\ main_pc = "po_playlists"
    /\ stages' = Append(stages, "playlists")
    /\ main_pc' = "save"
    /\ UNCHANGED <<args, csv_files, songs_df, embeddings, songs_df_clustered,
                   output_file, playlist_data>>

\* line 516: create_playlists_from_clusters, inside the try
MainPlaylistOnlyCreate ==
    /\ UNCHANGED mainFrame
    /\ main_pc = "po_playlists"
    /\ LET built == BuildRequests(songs_df_clustered, PLAYLIST_NAME)
       IN  IF built.raised
           THEN /\ stages' = Append(stages, "error")
                /\ playlist_data' = playlist_data
           ELSE /\ stages' = Append(stages, "playlists")
                /\ playlist_data' = built.playlist_data
    /\ main_pc' = "done"
    /\ UNCHANGED <<args, csv_files, songs_df, embeddings, songs_df_clustered, output_file>>

\* lines 523-532: load one table, or load and merge several
MainLoad ==
    /\ UNCHANGED mainFrame
    /\ main_pc = "load"
    /\ LET got == IF Len(csv_files) = 1
                  THEN load_embeddings_from_csv(csv_files[1])
                  ELSE load_and_concatenate_embeddings(csv_files)
       IN  IF got.raised
           THEN /\ main_pc' = "raised"
                /\ UNCHANGED <<songs_df, embeddings, stages>>
           ELSE /\ songs_df' = got.songs_df
                /\ embeddings' = got.embeddings
                /\ IF Len(got.songs_df) = 0
                   THEN main_pc' = "done" /\ stages' = Append(stages, "no_valid_embeddings")
                   ELSE main_pc' = "cluster" /\ stages' = Append(stages, "load")
    /\ UNCHANGED <<args, csv_files, songs_df_clustered, output_file, playlist_data>>

\* lines 534-547: the clustering engine returns a labelled copy, or raises
MainCluster ==
    /\ UNCHANGED mainFrame
    /\ main_pc = "cluster"
    /\ \/ /\ main_pc' = "raised"
          /\ UNCHANGED <<songs_df_clustered, stages>>
       \/ \E labels \in MainLabelings(Len(songs_df)) :
            /\ songs_df_clustered' = WithCluster(songs_df, labels)
            /\ stages' = Append(stages, "cluster")
            /\ main_pc' = "analyze"
    /\ UNCHANGED <<args, csv_files, songs_df, embeddings, output_file, playlist_data>>

\* line 550: analyze_clusters
MainAnalyze ==
    /\ UNCHANGED mainFrame
    /\ main_pc = "analyze"
    /\ stages' = Append(stages, "analyze")
    /\ main_pc' = IF args.create_playlists THEN "playlists" ELSE "save"
    /\ UNCHANGED <<args, csv_files, songs_df, embeddings, songs_df_clustered,
                   output_file, playlist_data>>

\* lines 553-554: create_playlists_from_clusters, outside any try
MainCreatePlaylists ==
    /\ UNCHANGED mainFrame
    /\ main_pc = "playlists"
    /\ LET built == BuildRequests(songs_df_clustered, PLAYLIST_NAME)
       IN  IF built.raised
           THEN /\ main_pc' = "raised"
                /\ UNCHANGED <<stages, playlist_data>>
           ELSE /\ main_pc' = "save"
                /\ stages' = Append(stages, "playlists")
                /\ playlist_data' = built.playlist_data
    /\ UNCHANGED <<args, csv_files, songs_df, embeddings, songs_df_clustered, output_file>>

\* line 557: save_results
MainSave ==
    /\ UNCHANGED mainFrame
    /\ main_pc = "save"
    /\ output_file' = save_results(songs_df_clustered)
    /\ stages' = Append(stages, "save")
    /\ main_pc' = "done"
    /\ UNCHANGED <<args, csv_files, songs_df, embeddings, songs_df_clustered, playlist_data>>

(***************************************************************************)
(* SpotifyPlaylistCreator: tokens and the current user.  Each function is  *)
(* the set of its outcomes, one per answer the service can give.           *)
(* n_flows, n_refreshes and n_me count the authorization flows, the token  *)
(* refreshes and the GET /v1/me requests made so far, me_log keeps the     *)
(* status of every GET /v1/me and env the environment the creator was      *)
(* built from (history).  A token the service has just issued is taken to  *)
(* expire after the call that asked for it has ended.                      *)
(***************************************************************************)
\* __init__ with client id and secret set: the tokens come from the environment
Construct(env) ==
    [access_token     |-> env.access_token,
     refresh_token    |-> env.refresh_token,
     token_expires_at |-> env.token_expires_at,
     user_id          |-> "None",
     n_flows |-> 0, n_refreshes |-> 0, n_me |-> 0, me_log |-> <<>>, env |-> env]

Environments ==
    [access_token : {"None", "AT_env"}, refresh_token : {"None", "RT_env"},
     token_expires_at : {"None", "past", "future"}]

\* refresh_access_token: [self, ret]
refresh_access_token(s) ==
    IF s.refresh_token = "None" THEN {[self |-> s, ret |-> FALSE]}
    ELSE LET asked  == [s EXCEPT !.n_refreshes = @ + 1]
             tokend == [asked EXCEPT !.access_token = "AT_refreshed"]
             timed  == [tokend EXCEPT !.token_expires_at = "future"]
         IN  { [self |-> asked, ret |-> FALSE],    \* HTTP error, or no 'access_token' key
               [self |-> tokend, ret |-> FALSE],   \* 'expires_in' is no number
               [self |-> timed, ret |-> TRUE],
               [self |-> [timed EXCEPT !.refresh_token = "RT_rotated"], ret |-> TRUE] }

\* get_user_access_token from line 105 on: the interactive flow
AuthorizationFlow(s) ==
    LET asked  == [s EXCEPT !.n_flows = @ + 1]
        full   == [asked EXCEPT !.access_token = "AT_flow", !.refresh_token = "RT_flow"]
        norefr == [asked EXCEPT !.access_token = "AT_flow", !.refresh_token = "None"]
    IN  { [self |-> asked, raised |-> TRUE],     \* HTTP error, or no 'access_token' key
          [self |-> full, raised |-> TRUE],      \* 'expires_in' is no number
          [self |-> [full EXCEPT !.token_expires_at = "future"], raised |-> FALSE],
          [self |-> [norefr EXCEPT !.token_expires_at = "future"], raised |-> FALSE] }

\* get_user_access_token: [self, raised]
get_user_access_token(s) ==
    IF s.access_token # "None" /\ s.token_expires_at # "None"
    THEN IF s.token_expires_at = "future"
         THEN {[self |-> s, raised |-> FALSE]}
         ELSE IF s.refresh_token # "None"
              THEN UNION { IF r.ret THEN {[self |-> r.self, raised |-> FALSE]}
                           ELSE AuthorizationFlow(r.self)
                           : r \in refresh_access_token(s) }
              ELSE AuthorizationFlow(s)
    ELSE AuthorizationFlow(s)

\* requests.get(/v1/me), raise_for_status and the assignment of user_id
UserRequest(s) ==
    LET asked(status) == [s EXCEPT !.n_me = @ + 1, !.me_log = Append(@, status)]
    IN  { [self |-> [asked(200) EXCEPT !.user_id = "user"], raised |-> FALSE, status |-> 200],
          [self |-> asked(401), raised |-> TRUE, status |-> 401],
          [self |-> asked(500), raised |-> TRUE, status |-> 500] }

\* lines 167-174: what a 401 leads to, up to the repeated request
RenewAndRepeat(s) ==
    LET renewed ==
            IF s.refresh_token # "None"
            THEN UNION { IF r.ret THEN {[self |-> r.self, raised |-> FALSE]}
                         ELSE get_user_access_token(r.self)
                         : r \in refresh_access_token(s) }
            ELSE get_user_access_token(s)
    IN  UNION { IF g.raised THEN {[self |-> g.self, raised |-> TRUE]}
                ELSE {[self |-> u.self, raised |-> u.raised] : u \in UserRequest(g.self)}
                : g \in renewed }

\* a get_current_user that asks for a token whatever it holds
get_current_user_Reauthenticates(s) ==
    UNION { IF g.raised THEN {[self |-> g.self, raised |-> TRUE]}
            ELSE UNION { IF u.status = 401
                         THEN RenewAndRepeat(u.self)
                         ELSE {[self |-> u.self, raised |-> u.raised]}
                         : u \in UserRequest(g.self) }
            : g \in get_user_access_token(s) }

\* get_current_user: [self, raised]
get_current_user(s) ==
    LET tokened == IF s.access_token = "None" THEN get_user_access_token(s)
                   ELSE {[self |-> s, raised |-> FALSE]}
    IN  UNION { IF g.raised THEN {[self |-> g.self, raised |-> TRUE]}
                ELSE UNION { IF u.status = 401
                             THEN RenewAndRepeat(u.self)
                             ELSE {[self |-> u.self, raised |-> u.raised]}
                             : u \in UserRequest(g.self) }
                : g \in tokened }

\* an "Ensure authentication" that leaves the user to the first request
EnsureAuthentication_TokenOnly(s) ==
    IF s.access_token = "None" THEN get_user_access_token(s)
    ELSE {[self |-> s, raised |-> FALSE]}

\* create_multiple_playlists, lines 307-311: "Ensure authentication"
EnsureAuthentication(s) ==
    LET tokened == IF s.access_token = "None" THEN get_user_access_token(s)
                   ELSE {[self |-> s, raised |-> FALSE]}
    IN  UNION { IF g.raised THEN {g}
                ELSE IF g.self.user_id = "None" THEN get_current_user(g.self)
                ELSE {g}
                : g \in tokened }

(***************************************************************************)
(* SpotifyPlaylistCreator: one request of create_multiple_playlists.       *)
(***************************************************************************)
batch_size == 100

RECURSIVE Batches(_)
\* track_uris[i:i + batch_size] for i in range(0, len(track_uris), batch_size)
Batches(track_uris) ==
    IF track_uris = <<>> THEN <<>>
    ELSE IF Len(track_uris) <= batch_size THEN <<track_uris>>
    ELSE <<SubSeq(track_uris, 1, batch_size)>>
         \o Batches(SubSeq(track_uris, batch_size + 1, Len(track_uris)))

\* create_spotify_playlist's check of the URIs
AllUrisValid(track_uris) == \A i \in 1..Len(track_uris) : validate_spotify_uri(track_uris[i])

\* the playlist create_playlist leaves on the service, for request number req
NewPlaylist(svc, req, info) ==
    [id |-> Len(svc) + 1, req |-> req, name |-> info.name,
     description |-> info.description, public |-> info.public, tracks |-> <<>>]

\* the service after the first n batches were added to its last playlist
AddBatches(svc, batches, n) ==
    [svc EXCEPT ![Len(svc)].tracks = Flatten(SubSeq(batches, 1, n))]

SuccessEntry(playlist, info) ==
    [failed |-> FALSE, id |-> playlist.id, name |-> playlist.name,
     tracks_added |-> Len(info.track_uris)]

FailureEntry(info) == [failed |-> TRUE, id |-> 0, name |-> info.name, tracks_added |-> 0]

\* a loop that loses the entry of a request that raised
OnRequestFailure_Dropped(res, info) == res

\* lines 331-337: the except branch of the loop
OnRequestFailure(res, info) == Append(res, FailureEntry(info))

\* lines 319-326: the request went through
OnRequestSuccess(res, playlist, info) == Append(res, SuccessEntry(playlist, info))

\* where a request can fail: 0 the creation, j the j-th batch, nb + 1 nowhere
FailurePoints(info) == 0..(Len(Batches(info.track_uris)) + 1)

\* create_playlist, lines 184-185: ask for the user if there is none yet
UserForRequest(s) ==
    IF s.user_id = "None" THEN get_current_user(s) ELSE {[self |-> s, raised |-> FALSE]}

\* history: a turn of the loop, with the creator as the turn found it
Attempt(req, s, raised) ==
    [req |-> req, raised |-> raised,
     access_token |-> s.access_token, user_id |-> s.user_id,
     n_flows |-> s.n_flows, n_refreshes |-> s.n_refreshes, n_me |-> s.n_me]

(***************************************************************************)
(* create_multiple_playlists                                               *)
(***************************************************************************)
\* what the creator never touches
cmpFrame == <<args, csv_files, main_pc, songs_df, embeddings, songs_df_clustered,
              stages, output_file,
              mat_pc, mat_input, playlist_data, mat_warnings, created_playlists,
              km_pc, km_in, km_out, cvVars, ldVars, hdbVars, rtVars,
    tkVars, stVars, geVars, dpVars>>

\* lines 304-311: an empty batch returns at once, else authenticate
CmpCall ==
    /\ UNCHANGED cmpFrame
    /\ cmp_pc = "call"
    /\ IF cmp_input = <<>>
       THEN /\ cmp_pc' = "returned"
            /\ UNCHANGED <<self, cmp_i>>
       ELSE \E o \in EnsureAuthentication(self) :
            /\ self' = o.self
            /\ cmp_pc' = IF o.raised THEN "raised" ELSE "loop"
            /\ cmp_i' = 1
    /\ UNCHANGED <<cmp_input, results, attempts, service>>

\* lines 314-337: one turn of the loop.  create_playlist asks for the user
\* only if user_id is not set; the creation and every batch of at most
\* batch_size tracks are one request each, and the first that fails ends
\* the turn.
CmpRequest ==
    /\ UNCHANGED cmpFrame
    /\ cmp_pc = "loop"
    /\ cmp_i <= Len(cmp_input)
    /\ LET info    == cmp_input[cmp_i]
           batches == Batches(info.track_uris)
           created == Append(service, NewPlaylist(service, cmp_i, info))
       IN  IF ~AllUrisValid(info.track_uris)
           THEN /\ results' = OnRequestFailure(results, info)
                /\ attempts' = Append(attempts, Attempt(cmp_i, self, TRUE))
                /\ UNCHANGED <<service, self>>
           ELSE \E u \in UserForRequest(self) :
                /\ self' = u.self
                /\ IF u.raised
                   THEN /\ results' = OnRequestFailure(results, info)
                        /\ attempts' = Append(attempts, Attempt(cmp_i, self, TRUE))
                        /\ service' = service
                   ELSE \E f \in FailurePoints(info) :
                        IF f = 0
                        THEN /\ results' = OnRequestFailure(results, info)
                             /\ attempts' = Append(attempts, Attempt(cmp_i, self, TRUE))
                             /\ service' = service
                        ELSE IF f <= Len(batches)
                        THEN /\ results' = OnRequestFailure(results, info)
                             /\ attempts' = Append(attempts, Attempt(cmp_i, self, TRUE))
                             /\ service' = AddBatches(created, batches, f - 1)
                        ELSE /\ results' = OnRequestSuccess(results, created[Len(created)], info)
                             /\ attempts' = Append(attempts, Attempt(cmp_i, self, FALSE))
                             /\ service' = AddBatches(created, batches, Len(batches))
    /\ cmp_i' = cmp_i + 1
    /\ UNCHANGED <<cmp_pc, cmp_input>>

\* line 339
CmpReturn ==
    /\ UNCHANGED cmpFrame
    /\ cmp_pc = "loop"
    /\ cmp_i > Len(cmp_input)
    /\ cmp_pc' = "returned"
    /\ UNCHANGED <<self, cmp_input, cmp_i, results, attempts, service>>

(***************************************************************************)
(* create_playlists_from_clusters                                          *)
(***************************************************************************)
matFrame == <<args, csv_files, main_pc, songs_df, embeddings, songs_df_clustered,
              stages, output_file, km_pc, km_in, km_out,
              cvVars, ldVars, hdbVars, rtVars,
    tkVars, stVars, geVars, dpVars>>

RECURSIVE ProcessFrom(_, _)
\* lines 423-432: the loop over enumerate(results) from position i (from 1) on
ProcessFrom(res, i) ==
    IF i > Len(res) THEN <<>>
    ELSE IF ~res[i].failed
         THEN <<[cluster_id |-> i - 1, playlist_name |-> res[i].name,
                 playlist_id |-> res[i].id, track_count |-> res[i].tracks_added]>>
              \o ProcessFrom(res, i + 1)
         ELSE ProcessFrom(res, i + 1)

ProcessResults(res) == ProcessFrom(res, 1)

\* lines 373-414: build the requests; nothing to create returns []
MatBuild ==
    /\ UNCHANGED matFrame
    /\ mat_pc = "call"
    /\ LET built == BuildRequests(mat_input, PLAYLIST_NAME)
       IN  IF built.raised
           THEN /\ mat_pc' = "raised"
                /\ UNCHANGED <<playlist_data, mat_warnings>>
           ELSE /\ playlist_data' = built.playlist_data
                /\ mat_warnings' = built.warnings
                /\ mat_pc' = IF built.playlist_data = <<>> THEN "returned" ELSE "submit"
    /\ UNCHANGED <<mat_input, created_playlists, cmpVars>>

\* lines 417-420: construct the creator (a missing client id or secret raises
\* into the except of line 445) and hand it the batch
MatSubmit ==
    /\ UNCHANGED matFrame
    /\ mat_pc = "submit"
    /\ \/ /\ mat_pc' = "returned"
          /\ UNCHANGED <<self, cmp_pc, cmp_input>>
       \/ \E env \in Environments :
            /\ self' = Construct(env)
            /\ cmp_input' = playlist_data
            /\ cmp_pc' = "call"
            /\ mat_pc' = "waiting"
    /\ UNCHANGED <<mat_input, playlist_data, mat_warnings, created_playlists,
                   cmp_i, results, attempts, service>>

\* lines 422-443: the summary of what was created
MatProcessResults ==
    /\ UNCHANGED matFrame
    /\ mat_pc = "waiting"
    /\ cmp_pc = "returned"
    /\ created_playlists' = ProcessResults(results)
    /\ mat_pc' = "returned"
    /\ UNCHANGED <<mat_input, playlist_data, mat_warnings, cmpVars>>

\* lines 445-447: authentication failed
MatCatch ==
    /\ UNCHANGED matFrame
    /\ mat_pc = "waiting"
    /\ cmp_pc = "raised"
    /\ created_playlists' = <<>>
    /\ mat_pc' = "returned"
    /\ UNCHANGED <<mat_input, playlist_data, mat_warnings, cmpVars>>

(***************************************************************************)
(* Centroid model: find_optimal_k and perform_kmeans_clustering.           *)
(* The fits are the library's: KMeans.fit_predict is taken to return a     *)
(* labelling of least within-cluster sum of squares (any naming of the     *)
(* clusters), and silhouette_score to accept 2 .. n_samples - 1 distinct   *)
(* labels and raise ValueError otherwise; the values it reports are        *)
(* inputs.                                                                 *)
(***************************************************************************)
Min(a, b) == IF a <= b THEN a ELSE b

\* range(2, min(max_k + 1, len(embeddings))), as a sequence
k_range(n_samples, max_k) ==
    LET stop == Min(max_k + 1, n_samples)
    IN  [i \in 1..(IF stop > 2 THEN stop - 2 ELSE 0) |-> i + 1]

\* np.argmax: the first position of the largest value (from 1)
ArgMax(scores) ==
    CHOOSE i \in 1..Len(scores) :
        /\ \A j \in 1..Len(scores) : scores[j] <= scores[i]
        /\ \A j \in 1..(i - 1) : scores[j] < scores[i]

\* a selection by the elbow's measure: the k of least inertia
find_optimal_k_ByInertia(n_samples, max_k, fits) ==
    LET ks == k_range(n_samples, max_k)
    IN  IF ks = <<>> \/ \E i \in 1..Len(ks) : fits[i].raised
        THEN [raised |-> TRUE, optimal_k |-> 0]
        ELSE [raised |-> FALSE,
              optimal_k |-> ks[ArgMax([i \in 1..Len(ks) |-> 0 - fits[i].inertia])]]

\* find_optimal_k; fits[i] is what the fit with k_range[i] clusters reports
find_optimal_k(n_samples, max_k, fits) ==
    LET ks     == k_range(n_samples, max_k)
        scores == [i \in 1..Len(ks) |-> fits[i].silhouette]
    IN  IF \E i \in 1..Len(ks) : fits[i].raised
        THEN [raised |-> TRUE, optimal_k |-> 0]    \* KMeans or silhouette_score raised
        ELSE IF ks = <<>>
        THEN [raised |-> TRUE, optimal_k |-> 0]    \* np.argmax of an empty list
        ELSE [raised |-> FALSE, optimal_k |-> ks[ArgMax(scores)]]

\* ---- StandardScaler and the squared distances the fit sees ----
RECURSIVE SumOver(_, _)
SumOver(f, S) ==
    IF S = {} THEN 0
    ELSE LET x == CHOOSE y \in S : TRUE IN f[x] + SumOver(f, S \ {x})

\* n^2 times the variance of column j; StandardScaler leaves a constant
\* column unscaled
ColumnSpread(points, j) ==
    LET n  == Len(points)
        s1 == SumOver([i \in 1..n |-> points[i][j]], 1..n)
        s2 == SumOver([i \in 1..n |-> points[i][j] * points[i][j]], 1..n)
        v  == n * s2 - s1 * s1
    IN  IF v = 0 THEN n * n ELSE v

RECURSIVE ProductOver(_, _)
ProductOver(f, S) ==
    IF S = {} THEN 1
    ELSE LET x == CHOOSE y \in S : TRUE IN f[x] * ProductOver(f, S \ {x})

\* the weight of column j in a squared distance: 1 unscaled, and in
\* proportion to 1 / variance after fit_transform (a common positive factor
\* is left out)
ColumnWeight(points, j, normalize) ==
    IF ~normalize THEN 1
    ELSE LET dims == 1..Len(points[1])
         IN  ProductOver([l \in dims |-> ColumnSpread(points, l)], dims \ {j})

Dist2(points, a, b, normalize) ==
    LET dims == 1..Len(points[1])
    IN  SumOver([j \in dims |->
                    ColumnWeight(points, j, normalize)
                    * (points[a][j] - points[b][j]) * (points[a][j] - points[b][j])],
                dims)

RECURSIVE Factorial(_)
Factorial(n) == IF n <= 1 THEN 1 ELSE n * Factorial(n - 1)

\* n! times the within-cluster sum of squares of a labelling
Inertia(points, labels, normalize) ==
    LET n       == Len(points)
        used    == {labels[i] : i \in 1..n}
        members == [c \in used |-> {i \in 1..n : labels[i] = c}]
        pairs   == [c \in used |-> {p \in members[c] \X members[c] : p[1] < p[2]}]
        within  == [c \in used |->
                      (Factorial(n) \div Cardinality(members[c]))
                      * SumOver([p \in pairs[c] |-> Dist2(points, p[1], p[2], normalize)],
                                pairs[c])]
    IN  SumOver(within, used)

\* KMeans(n_clusters = k).fit_predict(embeddings_scaled), for k <= n_samples
KMeansLabelings(points, k, normalize) ==
    LET all  == [1..Len(points) -> 0..(k - 1)]
        cost == [l \in all |-> Inertia(points, l, normalize)]
        best == CHOOSE v \in {cost[l] : l \in all} : \A m \in all : v <= cost[m]
    IN  {l \in all : cost[l] = best}

\* silhouette_score's check_number_of_labels
SilhouetteRaises(labels) ==
    LET n_labels == Cardinality({labels[i] : i \in 1..Len(labels)})
    IN  ~(1 < n_labels /\ n_labels < Len(labels))

kmFrame == <<args, csv_files, main_pc, songs_df, embeddings, songs_df_clustered,
             stages, output_file,
             mat_pc, mat_input, playlist_data, mat_warnings, created_playlists,
             self, cmp_pc, cmp_input, cmp_i, results, attempts, service,
             cvVars, ldVars, hdbVars, rtVars,
    tkVars, stVars, geVars, dpVars>>

MAX_K_DEFAULT == 10

Scores == {0, 1, 2}       \* silhouette values a fit may report, low to high
Inertias == {1, 2}        \* inertia values a fit may report

FitOutcomes ==
    [raised : {FALSE}, inertia : Inertias, silhouette : Scores]
    \cup {[raised |-> TRUE, inertia |-> 0, silhouette |-> 0]}

NoOutput == [fits |-> <<>>, optimal_k |-> 0, labels |-> <<>>]

\* the number of clusters the final fit is asked for
FitK == IF km_in.n_clusters # 0 THEN km_in.n_clusters ELSE km_out.optimal_k

\* lines 287-296: scale the embeddings; a missing n_clusters asks for the search
KmCall ==
    /\ UNCHANGED kmFrame
    /\ km_pc = "call"
    /\ km_pc' = IF km_in.entry = "find_optimal_k" \/ km_in.n_clusters = 0
                THEN "select" ELSE "fit"
    /\ UNCHANGED <<km_in, km_out>>

\* find_optimal_k (lines 183-197), called on its own or from line 298
KmSelect ==
    /\ UNCHANGED kmFrame
    /\ km_pc = "select"
    /\ \E fits \in [1..Len(k_range(Len(km_in.points), km_in.max_k)) -> FitOutcomes] :
         LET got == find_optimal_k(Len(km_in.points), km_in.max_k, fits)
         IN  /\ km_out' = [km_out EXCEPT !.fits = fits, !.optimal_k = got.optimal_k]
             /\ km_pc' = IF got.raised THEN "raised"
                         ELSE IF km_in.entry = "find_optimal_k" THEN "returned"
                         ELSE "fit"
    /\ UNCHANGED km_in

\* lines 324-337: the final fit, the cluster column and the silhouette score
KmFit ==
    /\ UNCHANGED kmFrame
    /\ km_pc = "fit"
    /\ IF FitK > Len(km_in.points) \/ FitK < 1
       THEN /\ km_pc' = "raised"        \* KMeans: n_samples < n_clusters
            /\ km_out' = km_out
       ELSE \E labels \in KMeansLabelings(km_in.points, FitK, km_in.normalize) :
            /\ km_out' = [km_out EXCEPT !.labels = labels]
            /\ km_pc' = IF SilhouetteRaises(labels) THEN "raised" ELSE "returned"
    /\ UNCHANGED km_in

(***************************************************************************)
(* Idle values of the parts a specification does not run.                  *)
(***************************************************************************)
MatIdle ==
    /\ mat_pc = "idle"
    /\ mat_input = <<>>
    /\ playlist_data = <<>>
    /\ mat_warnings = <<>>
    /\ created_playlists = <<>>

NoCreator ==
    [access_token |-> "None", refresh_token |-> "None", token_expires_at |-> "None",
     user_id |-> "None", n_flows |-> 0, n_refreshes |-> 0, n_me |-> 0, me_log |-> <<>>,
     env |-> [access_token |-> "None", refresh_token |-> "None",
              token_expires_at |-> "None"]]

CmpIdle ==
    /\ self = NoCreator
    /\ cmp_pc = "idle"
    /\ cmp_input = <<>>
    /\ cmp_i = 0
    /\ results = <<>>
    /\ attempts = <<>>
    /\ service = <<>>

KmIdle ==
    /\ km_pc = "idle"
    /\ km_in = [entry |-> "none", points |-> <<>>, n_clusters |-> 0,
                normalize |-> FALSE, max_k |-> 0]
    /\ km_out = NoOutput

CvIdle == cv_pc = "idle" /\ cv_in = NoneV /\ cv_out = NoneV

LdIdle ==
    /\ ld_pc = "idle"
    /\ ld_in = [entry |-> "none", files |-> <<>>]
    /\ ld_out = [raised |-> FALSE, songs_df |-> <<>>, embeddings |-> <<>>]

\* no silhouette score was computed
NoSilhouette == [computed |-> FALSE, labels |-> <<>>]

NoStatistics ==
    [labels |-> <<>>, n_clusters |-> 0, n_noise |-> 0, cluster_sizes |-> <<>>,
     silhouette |-> NoSilhouette]

HdbIdle ==
    /\ hdb_pc = "idle"
    /\ hdb_in = [n_samples |-> 0, min_cluster_size |-> 0]
    /\ hdb_out = NoStatistics

NoRoundTrip == [file |-> NoFile, back |-> ClusteredFailed]

RtIdle == rt_pc = "idle" /\ rt_in = <<>> /\ rt_out = NoRoundTrip

TkIdle == tk_pc = "idle" /\ tk_in = <<>> /\ tk_out = <<>>

StIdle == st_pc = "idle" /\ st_in = <<>> /\ st_locals = <<>> /\ heap = <<>>

GeIdle ==
    /\ ge_pc = "idle"
    /\ ge_in = <<>>
    /\ futures = <<>>
    /\ collected = <<>>
    /\ csv_rows = <<>>

DpIdle == dp_pc = "idle" /\ dp_in = <<>> /\ dp_out = <<>>

\* the parts that only the specifications of single functions run
FunctionsIdle == CvIdle /\ LdIdle /\ HdbIdle /\ RtIdle

\* the parts that only the specifications of single calls and scripts run
CallsIdle == TkIdle /\ StIdle /\ GeIdle /\ DpIdle

(***************************************************************************)
(* SpecMain                                                                *)
(***************************************************************************)
MainInit ==
    /\ \E in \in MainInputs : args = in[1] /\ csv_files = in[2]
    /\ main_pc = "start"
    /\ songs_df = <<>>
    /\ embeddings = <<>>
    /\ songs_df_clustered = <<>>
    /\ stages = <<>>
    /\ output_file = NoFile
    /\ MatIdle /\ CmpIdle /\ KmIdle /\ FunctionsIdle /\ CallsIdle

MainNext ==
    \/ MainStart
    \/ MainPlaylistOnlyLoad
    \/ MainPlaylistOnlyCreate
    \/ MainLoad
    \/ MainCluster
    \/ MainAnalyze
    \/ MainCreatePlaylists
    \/ MainSave

SpecMain == MainInit /\ [][MainNext]_vars

\* once the clustering has returned main() runs on: the calls of lines 550-557
\* are made one after the other, and each of them returns or raises
SpecMainLive ==
    /\ MainInit
    /\ [][MainNext]_vars
    /\ WF_vars(MainAnalyze)
    /\ WF_vars(MainCreatePlaylists)
    /\ WF_vars(MainSave)

(***************************************************************************)
(* Claims about the merge (SpecMain).                                      *)
(***************************************************************************)
\* the identity occurs among the rows the loader keeps of a file
InTable(key, file) ==
    \E r \in 1..Len(file.rows) :
        file.rows[r].embedding.parses /\ SongKey(file.rows[r]) = key

InEveryTable(key) == \A t \in 1..Len(csv_files) : InTable(key, csv_files[t])

InMerged(key) == \E i \in 1..Len(songs_df) : SongKey(songs_df[i]) = key

\* a merge of N > 1 tables has returned
MergeReturned ==
    /\ ~args.playlist_only
    /\ Len(csv_files) > 1
    /\ main_pc \in {"cluster", "analyze", "playlists", "save"}

\* C1: after a merge of N > 1 tables, an identity is in the merged output
\* if and only if it occurs in every one of the N tables.
C1_MergedIffInEveryTable ==
    MergeReturned => \A key \in Identities : InMerged(key) <=> InEveryTable(key)

\* the embeddings table t holds for an identity
EmbeddingsIn(key, file) ==
    {file.rows[r].embedding.value :
        r \in {q \in 1..Len(file.rows) :
                 file.rows[q].embedding.parses /\ SongKey(file.rows[q]) = key}}

RECURSIVE OnePerSource(_, _, _)
\* the vectors made of one embedding of the identity from table t, then one
\* from table t + 1, ..., then one from the last table
OnePerSource(key, files, t) ==
    IF t > Len(files) THEN {<<>>}
    ELSE {e \o rest : e \in EmbeddingsIn(key, files[t]),
                      rest \in OnePerSource(key, files, t + 1)}

RECURSIVE SumDims(_)
SumDims(n) == IF n = 0 THEN 0 ELSE Dim(n) + SumDims(n - 1)

\* C2: every row of the merged matrix is one embedding from source 1, then
\* one from source 2, ..., then one from source N, so its length is the sum
\* of the per-source dimensionalities.
C2_VectorIsOnePerSourceInOrder ==
    MergeReturned =>
        \A i \in 1..Len(songs_df) :
            /\ embeddings[i] \in OnePerSource(SongKey(songs_df[i]), csv_files, 1)
            /\ Len(embeddings[i]) = SumDims(Len(csv_files))

\* C7: when no identity is in all of the N > 1 sources the merge raises, and
\* the run clusters nothing, reports nothing, creates no playlist and writes
\* no result table.
C7_NoCompleteIdentityStopsRun ==
    (/\ ~args.playlist_only
     /\ Len(csv_files) > 1
     /\ ~\E key \in Identities : InEveryTable(key))
    => /\ main_pc \in {"start", "load", "raised", "done"}
       /\ Range(stages) \subseteq {"file_not_found"}
       /\ playlist_data = <<>>
       /\ output_file = NoFile

(***************************************************************************)
(* SpecCreator: create_multiple_playlists on a creator built from the      *)
(* environment.                                                            *)
(***************************************************************************)
MaxRequests == 2

\* n copies of a valid track URI
Tracks(n) == [i \in 1..n |-> NATIVE_URI]

TrackLists ==
    {<<>>, Tracks(1), Tracks(batch_size), Tracks(batch_size + 1), <<NATIVE_URI, WEB_URI>>}

RequestLists ==
    { [i \in 1..Len(lists) |->
          [name |-> <<"Playlist", i>>, track_uris |-> lists[i],
           description |-> Len(lists[i]), public |-> FALSE]]
      : lists \in SeqsUpTo(TrackLists, MaxRequests) }

CreatorInit ==
    /\ \E env \in Environments : self = Construct(env)
    /\ cmp_input \in RequestLists
    /\ cmp_pc = "call"
    /\ cmp_i = 0
    /\ results = <<>>
    /\ attempts = <<>>
    /\ service = <<>>
    /\ MainIdle /\ MatIdle /\ KmIdle /\ FunctionsIdle /\ CallsIdle

CreatorNext ==
    \/ CmpCall
    \/ CmpRequest
    \/ CmpReturn

SpecCreator == CreatorInit /\ [][CreatorNext]_vars

(***************************************************************************)
(* SpecMaterialize: create_playlists_from_clusters on a clustered table    *)
(* that was reloaded (load_clustered_csv) or came down the pipeline (the   *)
(* loader's csv.DictReader cells with the engine's labels).                *)
(***************************************************************************)
MaxTableRows == 2

UriCells == {NATIVE_URI, WEB_URI, OTHER_URI, EMPTY_STR}

MatFiles == ClusteredFiles(UriCells, ClusterLabels, MaxTableRows)

MatInputs ==
    {load_clustered_csv(f).df : f \in MatFiles}
    \cup {[i \in 1..Len(f.rows) |-> [f.rows[i] EXCEPT !.song_uri = DictReaderCell(@)]]
          : f \in MatFiles}

MaterializeInit ==
    /\ mat_input \in MatInputs
    /\ mat_pc = "call"
    /\ playlist_data = <<>>
    /\ mat_warnings = <<>>
    /\ created_playlists = <<>>
    /\ MainIdle /\ CmpIdle /\ KmIdle /\ FunctionsIdle /\ CallsIdle

MaterializeNext ==
    \/ MatBuild
    \/ MatSubmit
    \/ CmpCall
    \/ CmpRequest
    \/ CmpReturn
    \/ MatProcessResults
    \/ MatCatch

SpecMaterialize == MaterializeInit /\ [][MaterializeNext]_vars

(***************************************************************************)
(* SpecKMeans: find_optimal_k on n_samples rows, and                       *)
(* perform_kmeans_clustering on small 2-D embedding matrices.              *)
(***************************************************************************)
MaxSamples == 5    \* rows handed to find_optimal_k
MaxPoints  == 3    \* rows handed to perform_kmeans_clustering

Points == {<<0, 0>>, <<10, 10>>, <<0, 3>>}

KmInputs ==
    { [entry |-> "find_optimal_k", points |-> [i \in 1..n |-> <<i, 0>>],
       n_clusters |-> 0, normalize |-> FALSE, max_k |-> m]
      : n \in 1..MaxSamples, m \in {2, 3, MAX_K_DEFAULT} }
    \cup
    { [entry |-> "perform_kmeans_clustering", points |-> p,
       n_clusters |-> k, normalize |-> b, max_k |-> MAX_K_DEFAULT]
      : p \in SeqsUpTo(Points, MaxPoints) \ {<<>>}, k \in {0} \cup 2..MaxPoints,
        b \in BOOLEAN }

KMeansInit ==
    /\ km_in \in KmInputs
    /\ km_pc = "call"
    /\ km_out = NoOutput
    /\ MainIdle /\ MatIdle /\ CmpIdle /\ FunctionsIdle /\ CallsIdle

KMeansNext ==
    \/ KmCall
    \/ KmSelect
    \/ KmFit

SpecKMeans == KMeansInit /\ [][KMeansNext]_vars

(***************************************************************************)
(* Claims about create_playlists_from_clusters (SpecMaterialize).          *)
(***************************************************************************)
\* create_playlists_from_clusters has built its requests
RequestsBuilt == mat_pc \in {"submit", "waiting", "returned"}

InputLabels == {mat_input[i].cluster : i \in 1..Len(mat_input)}

RowsOf(c) == {i \in 1..Len(mat_input) : mat_input[i].cluster = c}

\* the native form, or the web-locator form
UsableUri(v) == v.t = "str" /\ (StartsWithPrefix(v.s) \/ ContainsWebTrack(v.s))

UsableRows(c) == {i \in RowsOf(c) : UsableUri(mat_input[i].song_uri)}

\* the cluster label in the name of a request
LabelOf(request) == request.name[2]

\* C3: requests are built for the labels other than -1 only: one per
\* non-noise label that has a usable URI, in ascending label order, and
\* none from the rows labelled -1.
C3_RequestsForNonNoiseLabelsOnly ==
    RequestsBuilt =>
        [i \in 1..Len(playlist_data) |-> LabelOf(playlist_data[i])]
          = SortedSeq({c \in InputLabels \ {-1} : UsableRows(c) # {}})

\* C5: a row whose song_uri is neither form (a missing or empty cell
\* included) is left out of its cluster's request and counted in the
\* cluster's warning, and the function does not raise.
C5_UnusableUriIsSkippedNotRaised ==
    /\ mat_pc # "raised"
    /\ RequestsBuilt =>
         \A c \in InputLabels :
            LET unusable == Cardinality(RowsOf(c) \ UsableRows(c))
            IN  /\ unusable > 0 =>
                     \E w \in 1..Len(mat_warnings) :
                        mat_warnings[w] = [cluster |-> c, invalid |-> unusable]
                /\ \A r \in 1..Len(playlist_data) :
                     LabelOf(playlist_data[r]) = c =>
                        Len(playlist_data[r].track_uris) = Cardinality(UsableRows(c))

\* C10: every request built or submitted has tracks; a cluster without a
\* usable URI has no request; with no request at all the function has
\* returned [] and the creator was never constructed or called.
C10_NoEmptyRequest ==
    /\ \A r \in 1..Len(playlist_data) : playlist_data[r].track_uris # <<>>
    /\ \A r \in 1..Len(cmp_input) : cmp_input[r].track_uris # <<>>
    /\ RequestsBuilt =>
         \A c \in InputLabels :
            UsableRows(c) = {} =>
               ~\E r \in 1..Len(playlist_data) : LabelOf(playlist_data[r]) = c
    /\ (RequestsBuilt /\ playlist_data = <<>>) =>
         /\ mat_pc = "returned"
         /\ created_playlists = <<>>
         /\ cmp_pc = "idle" /\ self = NoCreator
         /\ cmp_input = <<>> /\ results = <<>> /\ service = <<>>

\* a cluster was skipped for lack of usable URIs while another was submitted
C10_Witness ==
    /\ mat_pc = "returned"
    /\ \E c \in InputLabels : UsableRows(c) = {}
    /\ Len(playlist_data) = 1
    /\ results # <<>>

(***************************************************************************)
(* Claims about create_multiple_playlists (SpecCreator).                   *)
(***************************************************************************)
PlaylistsOf(req) == {p \in 1..Len(service) : service[p].req = req}

\* C4: for every request that has its result, either the playlist exists
\* with all of the request's tracks and the entry is a success, or the
\* entry is a failure and no playlist with none or some of the tracks is
\* left on the service.
C4_RequestIsAllOrNothing ==
    \A i \in 1..Len(results) :
        \/ /\ ~results[i].failed
           /\ \E p \in PlaylistsOf(i) : service[p].tracks = cmp_input[i].track_uris
        \/ /\ results[i].failed
           /\ \A p \in PlaylistsOf(i) : service[p].tracks = cmp_input[i].track_uris

\* C6: once authenticated, the batch returns one result per request, in
\* request order; every request was attempted, and one that raised has an
\* entry marked failed.
C6_OneResultPerRequest ==
    /\ cmp_pc = "loop" => Len(results) = cmp_i - 1
    /\ cmp_pc = "returned" =>
         /\ Len(results) = Len(cmp_input)
         /\ Len(attempts) = Len(cmp_input)
         /\ \A i \in 1..Len(cmp_input) :
              /\ results[i].name = cmp_input[i].name
              /\ attempts[i].req = i
              /\ results[i].failed = attempts[i].raised

\* a request failed and the next one was still created
C6_Witness ==
    /\ cmp_pc = "returned"
    /\ Len(results) = 2
    /\ results[1].failed
    /\ ~results[2].failed

(***************************************************************************)
(* Claims about the centroid model (SpecKMeans).                           *)
(***************************************************************************)
\* C8: the k find_optimal_k returns lies in [2, min(max_k, n_samples - 1)],
\* no k of that range has a higher silhouette score and no smaller k has an
\* equal one; the inertias have no part in it.
C8_OptimalKIsFirstSilhouetteMaximum ==
    km_out.optimal_k # 0 =>
        LET hi     == Min(km_in.max_k, Len(km_in.points) - 1)
            k      == km_out.optimal_k
            sil(j) == km_out.fits[j - 1].silhouette
        IN  /\ k \in 2..hi
            /\ \A j \in 2..hi : sil(j) <= sil(k)
            /\ \A j \in 2..(k - 1) : sil(j) < sil(k)

\* max_k cuts the range, two k tie, and the inertia is lower at the larger
C8_Witness ==
    /\ km_pc = "returned"
    /\ km_in.entry = "find_optimal_k"
    /\ Len(km_out.fits) >= 2
    /\ km_in.max_k < Len(km_in.points) - 1
    /\ km_out.optimal_k = 2
    /\ km_out.fits[2].silhouette = km_out.fits[1].silhouette
    /\ km_out.fits[2].inertia < km_out.fits[1].inertia

\* C9: with a forced k, 2 <= k <= n_samples, and at least k distinct
\* embeddings, perform_kmeans_clustering returns an assignment with exactly
\* k distinct labels, all in [0, k).
C9_ForcedKGivesKLabels ==
    (/\ km_in.entry = "perform_kmeans_clustering"
     /\ km_in.n_clusters >= 2
     /\ km_in.n_clusters <= Len(km_in.points)
     /\ Cardinality(Range(km_in.points)) >= km_in.n_clusters
     /\ km_pc \in {"returned", "raised"})
    => /\ km_pc = "returned"
       /\ Range(km_out.labels) = 0..(km_in.n_clusters - 1)

(***************************************************************************)
(* SpecConvert: convert_http_to_spotify_uri on one cell value.             *)
(***************************************************************************)
MaxTokens == 4   \* tokens in an argument

UriTokens == {PREFIX, SCHEME, HOST, TRACK, QMARK, ID22, QUERY, JUNK}

ConvertInputs ==
    {Str(s) : s \in SeqsUpTo(UriTokens, MaxTokens)} \cup {WEB_URI, NaN}

cvFrame == <<mainVars, matVars, cmpVars, kmVars, ldVars, hdbVars, rtVars,
    tkVars, stVars, geVars, dpVars>>

\* line 53 on a value without startswith: AttributeError
CvRaise ==
    /\ UNCHANGED cvFrame
    /\ cv_pc = "call"
    /\ ConvertRaises(cv_in)
    /\ cv_pc' = "raised"
    /\ UNCHANGED <<cv_in, cv_out>>

\* lines 53-54
CvNative ==
    /\ UNCHANGED cvFrame
    /\ cv_pc = "call"
    /\ ~ConvertRaises(cv_in)
    /\ StartsWithPrefix(cv_in.s)
    /\ cv_out' = convert_http_to_spotify_uri(cv_in)
    /\ cv_pc' = "returned"
    /\ UNCHANGED cv_in

\* lines 56-58
CvWeb ==
    /\ UNCHANGED cvFrame
    /\ cv_pc = "call"
    /\ ~ConvertRaises(cv_in)
    /\ ~StartsWithPrefix(cv_in.s)
    /\ ContainsWebTrack(cv_in.s)
    /\ cv_out' = convert_http_to_spotify_uri(cv_in)
    /\ cv_pc' = "returned"
    /\ UNCHANGED cv_in

\* line 60
CvNone ==
    /\ UNCHANGED cvFrame
    /\ cv_pc = "call"
    /\ ~ConvertRaises(cv_in)
    /\ ~StartsWithPrefix(cv_in.s)
    /\ ~ContainsWebTrack(cv_in.s)
    /\ cv_out' = convert_http_to_spotify_uri(cv_in)
    /\ cv_pc' = "returned"
    /\ UNCHANGED cv_in

ConvertInit ==
    /\ cv_in \in ConvertInputs
    /\ cv_pc = "call"
    /\ cv_out = NoneV
    /\ MainIdle /\ MatIdle /\ CmpIdle /\ KmIdle /\ LdIdle /\ HdbIdle /\ RtIdle /\ CallsIdle

ConvertNext ==
    \/ CvRaise
    \/ CvNative
    \/ CvWeb
    \/ CvNone

SpecConvert == ConvertInit /\ [][ConvertNext]_vars

\* the text between "track/" and the query of what starts as a web locator
LocatorId(s) == BeforeFirst(SubSeq(s, 4, Len(s)), QMARK)

\* https://open.spotify.com/track/<id>, with or without a query string
IsWebLocator(s) ==
    /\ Len(s) >= 4
    /\ s[1] = SCHEME /\ s[2] = HOST /\ s[3] = TRACK
    /\ LocatorId(s) # <<>>
    /\ \A i \in 1..Len(LocatorId(s)) : LocatorId(s)[i] \in {ID22, JUNK}

\* C11: a string that starts with 'spotify:track:' is returned unchanged, a
\* web locator https://open.spotify.com/track/<id> gives 'spotify:track:'
\* followed by the id without the query string, and every other string
\* gives None.
C11_ConvertByForm ==
    (cv_pc = "returned" /\ cv_in.t = "str") =>
        cv_out = IF StartsWithPrefix(cv_in.s) THEN cv_in
                 ELSE IF IsWebLocator(cv_in.s)
                      THEN Str(<<PREFIX>> \o LocatorId(cv_in.s))
                      ELSE NoneV

(***************************************************************************)
(* SpecHdbscan: perform_hdbscan_clustering.  HDBSCAN.fit_predict is the    *)
(* library's: it is taken to return, for every row, -1 (noise) or one of   *)
(* the labels 0 .. k - 1, each of them used.                               *)
(***************************************************************************)
MaxHdbRows == 4   \* rows handed to perform_hdbscan_clustering

HdbscanLabelings(n) ==
    {l \in [1..n -> -1..(n - 1)] :
        \A c \in 0..(n - 1) : (c \in Range(l) /\ c > 0) => (c - 1 \in Range(l))}

\* list(cluster_labels).count(label)
Count(labels, label) == Cardinality({i \in 1..Len(labels) : labels[i] = label})

\* a count of the distinct labels that takes noise for a cluster
CountClusters_WithNoise(labels) == Cardinality(Range(labels))

\* line 238: len(set(cluster_labels)) - (1 if -1 in cluster_labels else 0)
CountClusters(labels) ==
    Cardinality(Range(labels)) - (IF -1 \in Range(labels) THEN 1 ELSE 0)

\* lines 245-249: the dict of the cluster sizes, built only if n_clusters > 0
ClusterSizes(labels, n_clusters) ==
    IF n_clusters > 0
    THEN [label \in {c \in Range(labels) : c # -1} |-> Count(labels, label)]
    ELSE <<>>

\* a mask that keeps every row
WithoutNoise_KeepAll(labels) == labels

\* cluster_labels[mask], in row order
RECURSIVE WithoutNoise(_)
WithoutNoise(labels) ==
    IF labels = <<>> THEN <<>>
    ELSE IF Head(labels) # -1 THEN <<Head(labels)>> \o WithoutNoise(Tail(labels))
    ELSE WithoutNoise(Tail(labels))

hdbFrame == <<mainVars, matVars, cmpVars, kmVars, cvVars, ldVars, rtVars,
    tkVars, stVars, geVars, dpVars>>

\* lines 214-235: scale, fit, and copy the labels into the cluster column
HdbFit ==
    /\ UNCHANGED hdbFrame
    /\ hdb_pc = "call"
    /\ \E labels \in HdbscanLabelings(hdb_in.n_samples) :
         hdb_out' = [hdb_out EXCEPT !.labels = labels]
    /\ hdb_pc' = "statistics"
    /\ UNCHANGED hdb_in

\* lines 237-259: the statistics that are printed
HdbStatistics ==
    /\ UNCHANGED hdbFrame
    /\ hdb_pc = "statistics"
    /\ LET n_clusters == CountClusters(hdb_out.labels)
       IN  hdb_out' = [hdb_out EXCEPT
                          !.n_clusters = n_clusters,
                          !.n_noise = Count(hdb_out.labels, -1),
                          !.cluster_sizes = ClusterSizes(hdb_out.labels, n_clusters)]
    /\ hdb_pc' = "silhouette"
    /\ UNCHANGED hdb_in

\* lines 261-270: the silhouette score of the rows that are no noise
HdbSilhouette ==
    /\ UNCHANGED hdbFrame
    /\ hdb_pc = "silhouette"
    /\ LET masked == WithoutNoise(hdb_out.labels)
       IN  IF hdb_out.n_clusters > 1 /\ Len(masked) > 1
           THEN /\ hdb_out' = [hdb_out EXCEPT
                                  !.silhouette = [computed |-> TRUE, labels |-> masked]]
                /\ hdb_pc' = IF SilhouetteRaises(masked) THEN "raised" ELSE "returned"
           ELSE /\ hdb_out' = hdb_out
                /\ hdb_pc' = "returned"
    /\ UNCHANGED hdb_in

HdbscanInit ==
    /\ hdb_in \in [n_samples : 1..MaxHdbRows, min_cluster_size : {2, 3, 5}]
    /\ hdb_pc = "call"
    /\ hdb_out = NoStatistics
    /\ MainIdle /\ MatIdle /\ CmpIdle /\ KmIdle /\ CvIdle /\ LdIdle /\ RtIdle /\ CallsIdle

HdbscanNext ==
    \/ HdbFit
    \/ HdbStatistics
    \/ HdbSilhouette

SpecHdbscan == HdbscanInit /\ [][HdbscanNext]_vars

\* C12: the reported number of clusters is the number of distinct labels
\* other than -1, the reported noise count is the number of rows labelled -1
\* (so -1 is a label iff the count is > 0), every reported cluster size is
\* the number of rows with that label, and sizes and noise add up to the
\* number of tracks.
C12_StatisticsMatchLabels ==
    hdb_pc \in {"silhouette", "returned"} =>
        LET labels   == hdb_out.labels
            clusters == Range(labels) \ {-1}
            sizes    == hdb_out.cluster_sizes
        IN  /\ hdb_out.n_clusters = Cardinality(clusters)
            /\ hdb_out.n_noise = Cardinality({i \in 1..Len(labels) : labels[i] = -1})
            /\ (-1 \in Range(labels)) <=> (hdb_out.n_noise > 0)
            /\ DOMAIN sizes = clusters
            /\ \A c \in clusters :
                 sizes[c] = Cardinality({i \in 1..Len(labels) : labels[i] = c})
            /\ SumOver(sizes, DOMAIN sizes) + hdb_out.n_noise = hdb_in.n_samples

\* two clusters and noise
C12_Witness ==
    /\ hdb_pc = "returned"
    /\ hdb_out.n_clusters = 2
    /\ hdb_out.n_noise > 0
    /\ hdb_out.cluster_sizes[0] = 2

(***************************************************************************)
(* SpecReload: save_results of a Clustered Result Table, then              *)
(* load_clustered_csv of the file it wrote.                                *)
(***************************************************************************)
MaxRtRows == 2   \* rows of the table

\* texts a Track Record can carry as a song name and as an artist
NameTexts   == {Str(<<"A">>), Str(<<"NA">>), Str(<<NUMERAL>>), EMPTY_STR}
ArtistTexts == {Str(<<"x">>), Str(<<"null">>)}

RtInputs ==
    SeqsUpTo([song_name : NameTexts, artist : ArtistTexts,
              song_uri : {NATIVE_URI}, cluster : {0, 1}], MaxRtRows)

rtFrame == <<mainVars, matVars, cmpVars, kmVars, cvVars, ldVars, hdbVars,
    tkVars, stVars, geVars, dpVars>>

\* save_results(songs_df_clustered, output_path)
RtSave ==
    /\ UNCHANGED rtFrame
    /\ rt_pc = "save"
    /\ rt_out' = [rt_out EXCEPT !.file = save_results(rt_in)]
    /\ rt_pc' = "load"
    /\ UNCHANGED rt_in

\* load_clustered_csv(output_path)
RtLoad ==
    /\ UNCHANGED rtFrame
    /\ rt_pc = "load"
    /\ rt_out' = [rt_out EXCEPT
                    !.back = load_clustered_csv([columns |-> rt_out.file.columns,
                                                 rows |-> rt_out.file.rows])]
    /\ rt_pc' = "loaded"
    /\ UNCHANGED rt_in

ReloadInit ==
    /\ rt_in \in RtInputs
    /\ rt_pc = "save"
    /\ rt_out = NoRoundTrip
    /\ MainIdle /\ MatIdle /\ CmpIdle /\ KmIdle /\ CvIdle /\ LdIdle /\ HdbIdle /\ CallsIdle

ReloadNext ==
    \/ RtSave
    \/ RtLoad

SpecReload == ReloadInit /\ [][ReloadNext]_vars

\* C14: a Clustered Result Table written by save_results and read back by
\* load_clustered_csv has the same rows in the same order, each with the
\* identity (song_name, artist) and the cluster label it had.
C14_ReloadKeepsIdentityAndCluster ==
    rt_pc = "loaded" =>
        /\ ~rt_out.back.raised
        /\ Len(rt_out.back.df) = Len(rt_in)
        /\ \A i \in 1..Len(rt_in) :
             /\ SongKey(rt_out.back.df[i]) = SongKey(rt_in[i])
             /\ rt_out.back.df[i].cluster = rt_in[i].cluster

(***************************************************************************)
(* Claims about the playlist-only mode of main() (SpecMain).               *)
(***************************************************************************)
\* playlist-only mode on one table that lacks a required column
MissingColumn ==
    /\ args.playlist_only
    /\ Len(csv_files) = 1
    /\ \E c \in {"song_name", "artist", "song_uri", "cluster"} : c \notin csv_files[1].columns

\* C13: load_clustered_csv raises when one of song_name, artist, song_uri,
\* cluster is absent from the table, and the playlist-only run then ends
\* with no summary and no playlist-creation request.
C13_MissingColumnEndsPlaylistOnlyRun ==
    MissingColumn =>
        /\ load_clustered_csv(csv_files[1]).raised
        /\ main_pc \in {"start", "po_load", "done"}
        /\ stages \in {<<>>, <<"file_not_found">>, <<"error">>}
        /\ songs_df_clustered = <<>>
        /\ playlist_data = <<>>
        /\ mat_pc = "idle" /\ cmp_pc = "idle" /\ cmp_input = <<>>

\* the run ended on a table without its song_uri column
C13_Witness ==
    /\ MissingColumn
    /\ "song_uri" \notin csv_files[1].columns
    /\ main_pc = "done"
    /\ stages = <<"error">>

\* C18: a playlist-only run goes from load_clustered_csv to the summary and
\* the playlists: it loads and merges no embedding table, clusters nothing
\* and writes no result table; with more than one file it stops before it
\* loads anything.
C18_PlaylistOnlySkipsLoadClusterSave ==
    args.playlist_only =>
        /\ stages \in {<<>>, <<"file_not_found">>, <<"one_file_only">>, <<"error">>,
                       <<"load_clustered", "summary">>,
                       <<"load_clustered", "summary", "playlists">>,
                       <<"load_clustered", "summary", "error">>}
        /\ main_pc \in {"start", "po_load", "po_playlists", "done"}
        /\ songs_df = <<>> /\ embeddings = <<>>
        /\ output_file = NoFile
        /\ km_pc = "idle" /\ hdb_pc = "idle" /\ ld_pc = "idle"
        /\ Len(csv_files) > 1 =>
             /\ stages \in {<<>>, <<"file_not_found">>, <<"one_file_only">>}
             /\ songs_df_clustered = <<>>

\* a playlist-only run that built its requests and ended
C18_Witness ==
    /\ args.playlist_only
    /\ main_pc = "done"
    /\ stages = <<"load_clustered", "summary", "playlists">>
    /\ playlist_data # <<>>
    /\ songs_df_clustered # <<>>

(***************************************************************************)
(* SpecLoader: load_embeddings_from_csv on one table, and                  *)
(* load_and_concatenate_embeddings on one or two.  An embedding cell is a  *)
(* list of one or of two numbers, or a text on which ast.literal_eval      *)
(* raises ValueError, SyntaxError or TypeError.                            *)
(***************************************************************************)
MaxLoaderRows == 3   \* rows of the table

CellKinds == {"list1", "list2", "ValueError", "SyntaxError", "TypeError"}

LoaderRowShapes == [key : Identities, cell : CellKinds]

MkLoaderRow(r, shape) ==
    LET parses == shape.cell \in {"list1", "list2"}
        dim    == IF shape.cell = "list2" THEN 2 ELSE 1
    IN  [song_name |-> shape.key[1], artist |-> shape.key[2],
         song_uri  |-> NATIVE_URI,
         embedding |-> [parses |-> parses,
                        value  |-> IF parses THEN [i \in 1..dim |-> 10 + r] ELSE <<>>,
                        error  |-> IF parses THEN "none" ELSE shape.cell]]

LoaderFiles ==
    { [columns |-> EmbeddingColumns,
       rows    |-> [r \in 1..Len(shapes) |-> MkLoaderRow(r, shapes[r])]]
      : shapes \in SeqsUpTo(LoaderRowShapes, MaxLoaderRows) }

LoaderInputs ==
    { [entry |-> e, files |-> <<f>>]
      : e \in {"load_embeddings_from_csv", "load_and_concatenate_embeddings"},
        f \in LoaderFiles \cup {DropColumn(g, "embedding") : g \in {h \in LoaderFiles : Len(h.rows) <= 1}} }
    \cup
    { [entry |-> "load_and_concatenate_embeddings", files |-> fs]
      : fs \in {gs \in EmbeddingFileLists : Len(gs) > 1} }

ldFrame == <<mainVars, matVars, cmpVars, kmVars, cvVars, hdbVars, rtVars,
    tkVars, stVars, geVars, dpVars>>

\* load_embeddings_from_csv(csv_path)
LdLoad ==
    /\ UNCHANGED ldFrame
    /\ ld_pc = "call"
    /\ ld_in.entry = "load_embeddings_from_csv"
    /\ ld_out' = load_embeddings_from_csv(ld_in.files[1])
    /\ ld_pc' = IF ld_out'.raised THEN "raised" ELSE "returned"
    /\ UNCHANGED ld_in

\* load_and_concatenate_embeddings(csv_paths)
LdMerge ==
    /\ UNCHANGED ldFrame
    /\ ld_pc = "call"
    /\ ld_in.entry = "load_and_concatenate_embeddings"
    /\ ld_out' = load_and_concatenate_embeddings(ld_in.files)
    /\ ld_pc' = IF ld_out'.raised THEN "raised" ELSE "returned"
    /\ UNCHANGED ld_in

LoaderInit ==
    /\ ld_in \in LoaderInputs
    /\ ld_pc = "call"
    /\ ld_out = [raised |-> FALSE, songs_df |-> <<>>, embeddings |-> <<>>]
    /\ MainIdle /\ MatIdle /\ CmpIdle /\ KmIdle /\ CvIdle /\ HdbIdle /\ RtIdle /\ CallsIdle

LoaderNext ==
    \/ LdLoad
    \/ LdMerge

SpecLoader == LoaderInit /\ [][LoaderNext]_vars

\* load_embeddings_from_csv has ended on a table that has its four columns
LoaderEnded ==
    /\ ld_in.entry = "load_embeddings_from_csv"
    /\ ld_pc \in {"returned", "raised"}
    /\ EmbeddingColumns \subseteq ld_in.files[1].columns

\* the positions of the rows whose cell deserializes, in file order
Deserialized(file) ==
    SortedSeq({r \in 1..Len(file.rows) : file.rows[r].embedding.parses})

\* the lengths of the embeddings that deserialize
EmbeddingLengths(file) ==
    {Len(file.rows[r].embedding.value) : r \in Range(Deserialized(file))}

\* C15: a row whose embedding cell cannot be deserialized is skipped and the
\* rows after it are still processed (no such cell makes the load raise);
\* what is returned has one matrix row per record, row i being the
\* embedding of record i, in file order.
C15_UnparseableRowIsSkipped ==
    LoaderEnded =>
        LET file == ld_in.files[1]
            kept == Deserialized(file)
        IN  /\ ld_pc = "raised" => Cardinality(EmbeddingLengths(file)) # 1
            /\ ld_pc = "returned" =>
                 /\ Len(ld_out.songs_df) = Len(kept)
                 /\ Len(ld_out.embeddings) = Len(kept)
                 /\ \A i \in 1..Len(kept) :
                      /\ ld_out.songs_df[i] = SongInfo(file.rows[kept[i]])
                      /\ ld_out.embeddings[i] = file.rows[kept[i]].embedding.value

\* C16: a table whose embeddings have different lengths is still loaded:
\* the rows that differ are dropped, and the embeddings returned all have
\* one length.
C16_MismatchedRowsAreDropped ==
    (/\ LoaderEnded
     /\ Cardinality(EmbeddingLengths(ld_in.files[1])) > 1
     /\ \A r \in 1..Len(ld_in.files[1].rows) : ~Uncaught(ld_in.files[1].rows[r]))
    => /\ ld_pc = "returned"
       /\ Len(ld_out.songs_df) = Len(ld_out.embeddings)
       /\ ld_out.embeddings # <<>>
       /\ \A i, j \in 1..Len(ld_out.embeddings) :
            Len(ld_out.embeddings[i]) = Len(ld_out.embeddings[j])

\* C17: for a single table, load_and_concatenate_embeddings returns (or
\* raises) exactly as load_embeddings_from_csv does on that table: the same
\* records in the same order and the same matrix.
C17_SingleTablePassThrough ==
    (/\ ld_in.entry = "load_and_concatenate_embeddings"
     /\ Len(ld_in.files) = 1
     /\ ld_pc \in {"returned", "raised"})
    => LET alone == load_embeddings_from_csv(ld_in.files[1])
       IN  /\ (ld_pc = "raised") <=> alone.raised
           /\ ld_out.songs_df = alone.songs_df
           /\ ld_out.embeddings = alone.embeddings

\* a single table in which an identity occurs twice went through the merge
C17_Witness ==
    /\ ld_in.entry = "load_and_concatenate_embeddings"
    /\ Len(ld_in.files) = 1
    /\ ld_pc = "returned"
    /\ Len(ld_out.songs_df) = 2
    /\ SongKey(ld_out.songs_df[1]) = SongKey(ld_out.songs_df[2])

(***************************************************************************)
(* Claims about the creator's authentication (SpecCreator).                *)
(***************************************************************************)
\* C19: in one create_multiple_playlists batch the authorization flow runs
\* at most once and before the first request; every request is sent with
\* the same access token and user id, and no request makes the creator
\* authenticate again.
C19_OneAuthenticationPerBatch ==
    /\ self.n_flows <= 1
    /\ \A i \in 1..Len(attempts) :
         /\ attempts[i].access_token = self.access_token
         /\ attempts[i].access_token # "None"
         /\ attempts[i].user_id = self.user_id
         /\ attempts[i].user_id # "None"
         /\ attempts[i].n_flows = self.n_flows
         /\ attempts[i].n_refreshes = self.n_refreshes
         /\ attempts[i].n_me = self.n_me

\* two requests were sent after an authorization flow
C19_Witness ==
    /\ cmp_pc = "returned"
    /\ Len(attempts) = 2
    /\ self.n_flows = 1
    /\ ~attempts[2].raised

\* the creator holds the environment's access token and the service
\* answered the first GET /v1/me with 200
EnvTokenAccepted ==
    /\ self.env.access_token # "None"
    /\ self.me_log # <<>>
    /\ self.me_log[1] = 200

\* C20: with an access token from the environment that the service accepts,
\* get_current_user returns and sets user_id; no authorization flow and no
\* token refresh runs, and the stored access and refresh tokens stay as the
\* environment gave them.
C20_EnvTokenIsUsedAsIs ==
    EnvTokenAccepted =>
        /\ cmp_pc \in {"loop", "returned"}
        /\ self.user_id = "user"
        /\ self.n_flows = 0
        /\ self.n_refreshes = 0
        /\ self.me_log = <<200>>
        /\ self.access_token = self.env.access_token
        /\ self.refresh_token = self.env.refresh_token
        /\ self.token_expires_at = self.env.token_expires_at

\* an environment token with an expiry in the past was accepted
C20_Witness ==
    /\ EnvTokenAccepted
    /\ self.env.token_expires_at = "past"
    /\ self.env.refresh_token # "None"
    /\ cmp_pc = "loop"

(***************************************************************************)
(* Claims about the silhouette score of perform_hdbscan_clustering         *)
(* (SpecHdbscan).                                                          *)
(***************************************************************************)
\* perform_hdbscan_clustering has ended: it returned, or silhouette_score raised
HdbEnded == hdb_pc \in {"returned", "raised"}

\* C21: a silhouette score is computed only when more than one real cluster
\* exists, and then over exactly the rows whose label is not -1; with zero or
\* one real cluster none is computed and the function returns the assignment.
C21_SilhouetteOnlyOverRealClusters ==
    HdbEnded =>
        LET labels == hdb_out.labels
            real   == Range(labels) \ {-1}
            scored == hdb_out.silhouette
        IN  /\ scored.computed =>
                  /\ Cardinality(real) > 1
                  /\ -1 \notin Range(scored.labels)
                  /\ Len(scored.labels) = Cardinality({i \in 1..Len(labels) : labels[i] # -1})
                  /\ \A c \in real :
                        Cardinality({i \in 1..Len(scored.labels) : scored.labels[i] = c})
                            = Cardinality({i \in 1..Len(labels) : labels[i] = c})
            /\ Cardinality(real) <= 1 =>
                  /\ ~scored.computed
                  /\ hdb_pc = "returned"
                  /\ Len(labels) = hdb_in.n_samples

\* a score over the rows of two clusters, the noise left out
C21_Witness ==
    /\ hdb_pc = "returned"
    /\ hdb_out.silhouette.computed
    /\ -1 \in Range(hdb_out.labels)
    /\ Len(hdb_out.silhouette.labels) = 3

(***************************************************************************)
(* Claims about the summary of create_playlists_from_clusters              *)
(* (SpecMaterialize).                                                      *)
(***************************************************************************)
\* the label of the cluster a playlist was built from: line 402 names the
\* playlist f"{base_name} {cluster_id}"
BuiltFrom(playlist) == playlist.playlist_name[2]

\* C23: in the summary create_playlists_from_clusters returns, the cluster_id
\* of every created playlist is the label of the cluster the playlist was
\* built from.
C23_ClusterIdIsLabel ==
    mat_pc = "returned" =>
        \A j \in 1..Len(created_playlists) :
            created_playlists[j].cluster_id = BuiltFrom(created_playlists[j])

\* C24: every track URI that convert_http_to_spotify_uri accepts (returns
\* other than None) passes validate_spotify_uri, so that the URI check of
\* create_spotify_playlist rejects no request made of accepted URIs.
C24_AcceptedUrisAreValid ==
    (cv_pc = "returned" /\ cv_out # NoneV) =>
        /\ validate_spotify_uri(cv_out)
        /\ AllUrisValid(<<cv_out>>)

(***************************************************************************)
(* Claims about main() in regular clustering mode (SpecMainLive).          *)
(***************************************************************************)
\* C25: in regular clustering mode with playlist creation requested, once
\* the clustering has completed the Clustered Result Table is eventually
\* written to the output path, whatever happens while the playlists are
\* created.
C25_ClusteredTableIsEventuallySaved ==
    (main_pc = "analyze" /\ ~args.playlist_only /\ args.create_playlists)
        ~> (output_file # NoFile)

\* main() in regular mode has called the loader of its single table
SingleLoadEnded ==
    /\ ~args.playlist_only
    /\ Len(csv_files) = 1
    /\ main_pc \notin {"start", "load"}
    /\ "file_not_found" \notin Range(stages)

\* no row of the table has an embedding cell that deserializes
NoRowParses(file) == \A r \in 1..Len(file.rows) : ~file.rows[r].embedding.parses

\* C26: when every row of the embedding table is malformed, or the table has
\* no rows, load_embeddings_from_csv returns an empty record list and main()
\* ends with the "No valid embeddings found" message before any clustering,
\* not with an unhandled error.
C26_NoValidRowsEndsRunQuietly ==
    (SingleLoadEnded /\ NoRowParses(csv_files[1])) =>
        /\ main_pc = "done"
        /\ stages = <<"no_valid_embeddings">>
        /\ songs_df = <<>>

(***************************************************************************)
(* SpecTokens: one call of refresh_access_token or of get_current_user on  *)
(* a creator built from the environment.                                   *)
(***************************************************************************)
\* the creators a call can find: built from any environment, the user known
\* from an earlier call or not
TokenStates ==
    {[Construct(env) EXCEPT !.user_id = u] : env \in Environments, u \in {"None", "user_0"}}

TkInputs == [entry : {"refresh_access_token", "get_current_user"}, self : TokenStates]

tkFrame == <<mainVars, matVars, cmpVars, kmVars, cvVars, ldVars, hdbVars, rtVars,
             stVars, geVars, dpVars>>

\* refresh_access_token(): it returns True or False and never raises
TkRefresh ==
    /\ UNCHANGED tkFrame
    /\ tk_pc = "call"
    /\ tk_in.entry = "refresh_access_token"
    /\ \E r \in refresh_access_token(tk_in.self) :
         tk_out' = [self |-> r.self, ret |-> IF r.ret THEN "True" ELSE "False"]
    /\ tk_pc' = "returned"
    /\ UNCHANGED tk_in

\* get_current_user(): it returns the user data or raises
TkCurrentUser ==
    /\ UNCHANGED tkFrame
    /\ tk_pc = "call"
    /\ tk_in.entry = "get_current_user"
    /\ \E r \in get_current_user(tk_in.self) :
         /\ tk_out' = [self |-> r.self, ret |-> IF r.raised THEN "None" ELSE "user_data"]
         /\ tk_pc' = IF r.raised THEN "raised" ELSE "returned"
    /\ UNCHANGED tk_in

TokensInit ==
    /\ tk_in \in TkInputs
    /\ tk_pc = "call"
    /\ tk_out = <<>>
    /\ MainIdle /\ MatIdle /\ CmpIdle /\ KmIdle /\ FunctionsIdle
    /\ StIdle /\ GeIdle /\ DpIdle

TokensNext ==
    \/ TkRefresh
    \/ TkCurrentUser

SpecTokens == TokensInit /\ [][TokensNext]_vars

\* the three token fields of a creator
TokenFields(s) == <<s.access_token, s.refresh_token, s.token_expires_at>>

\* C27: whenever refresh_access_token returns False, access_token,
\* refresh_token and token_expires_at are what they were before the call.
C27_FailedRefreshLeavesTokens ==
    (tk_pc = "returned" /\ tk_in.entry = "refresh_access_token" /\ tk_out.ret = "False") =>
        TokenFields(tk_out.self) = TokenFields(tk_in.self)

\* get_current_user has ended and its first GET /v1/me was answered 401
EndedAfter401 ==
    /\ tk_pc \in {"returned", "raised"}
    /\ tk_in.entry = "get_current_user"
    /\ tk_out.self.me_log # <<>>
    /\ tk_out.self.me_log[1] = 401

\* C28: after a 401 get_current_user renews the token (by a refresh if
\* possible, otherwise by the authorization flow) and repeats the user
\* request once and no more; if the repeated request fails too it raises and
\* user_id keeps its previous value.
C28_RenewsAndRepeatsOnce ==
    EndedAfter401 =>
        LET s      == tk_out.self
            before == tk_in.self
        IN  /\ Len(s.me_log) <= 2
            /\ (Len(s.me_log) = 2 /\ before.access_token # "None") =>
                  /\ s.access_token # before.access_token
                  /\ s.n_refreshes + s.n_flows > 0
            /\ tk_pc = "returned" => (Len(s.me_log) = 2 /\ s.me_log[2] = 200)
            /\ (Len(s.me_log) = 2 /\ s.me_log[2] # 200) =>
                  (tk_pc = "raised" /\ s.user_id = before.user_id)

(***************************************************************************)
(* SpecStage: the objects of perform_kmeans_clustering and                 *)
(* perform_hdbscan_clustering.  heap is the sequence of the objects that   *)
(* exist; an argument or a local name holds a reference, the position of   *)
(* its object in heap.  KMeans.fit_predict (copy_x=True) and               *)
(* HDBSCAN.fit_predict are the library's: they read the matrix they are    *)
(* given and return one label per row.                                     *)
(***************************************************************************)
MaxStageRows == 3   \* rows of the record table handed to the stage

\* StandardScaler.fit_transform: a new matrix, each column centred on its
\* mean (n times the value, the division by the deviation left out)
Scaled(matrix) ==
    LET n == Len(matrix)
    IN  [i \in 1..n |->
            [j \in 1..Len(matrix[i]) |->
                n * matrix[i][j] - SumOver([r \in 1..n |-> matrix[r][j]], 1..n)]]

\* a name bound to the table it was given
CopyTable_Alias(h, ref) == [heap |-> h, ref |-> ref]

\* songs_df.copy(): a new object with the rows of the old one
CopyTable(h, ref) == [heap |-> Append(h, h[ref]), ref |-> Len(h) + 1]

\* df['cluster'] = cluster_labels on the object itself
SetClusterColumn(table, labels) ==
    [i \in 1..Len(table) |->
        [f \in DOMAIN table[i] \cup {"cluster"} |->
            IF f = "cluster" THEN labels[i] ELSE table[i][f]]]

StageTables ==
    {[i \in 1..Len(keys) |->
        [song_name |-> keys[i][1], artist |-> keys[i][2], song_uri |-> NATIVE_URI]]
     : keys \in SeqsUpTo(Identities, MaxStageRows) \ {<<>>}}

\* n_clusters = 0 stands for None
StageInputs ==
    {[algorithm |-> a, normalize |-> b, n_clusters |-> k,
      songs_df |-> 1, embeddings |-> 2,
      table |-> t, matrix |-> [i \in 1..Len(t) |-> <<i * i, 1>>]]
     : a \in {"kmeans", "hdbscan"}, b \in BOOLEAN, k \in {0, 2}, t \in StageTables}

NoLocals == [embeddings_scaled |-> 0, cluster_labels |-> <<>>, songs_df_clustered |-> 0]

stFrame == <<mainVars, matVars, cmpVars, kmVars, cvVars, ldVars, hdbVars, rtVars,
             tkVars, geVars, dpVars>>

\* lines 288-293 and 215-220: fit_transform makes a new matrix; without
\* normalization embeddings_scaled is the caller's matrix itself
StScale ==
    /\ UNCHANGED stFrame
    /\ st_pc = "call"
    /\ IF st_in.normalize
       THEN /\ heap' = Append(heap, Scaled(heap[st_in.embeddings]))
            /\ st_locals' = [st_locals EXCEPT !.embeddings_scaled = Len(heap) + 1]
       ELSE /\ heap' = heap
            /\ st_locals' = [st_locals EXCEPT !.embeddings_scaled = st_in.embeddings]
    /\ st_pc' = "fit"
    /\ UNCHANGED st_in

\* the numbers of clusters the k-means fit may be asked for: the one given,
\* or one of those find_optimal_k tries (it raises when it tries none)
StageKs ==
    IF st_in.n_clusters # 0 THEN {st_in.n_clusters}
    ELSE Range(k_range(Len(heap[st_locals.embeddings_scaled]), MAX_K_DEFAULT))

\* lines 296-327 and 223-234: the fit reads embeddings_scaled and returns
\* the labels, or raises
StFit ==
    /\ UNCHANGED stFrame
    /\ st_pc = "fit"
    /\ LET n == Len(heap[st_locals.embeddings_scaled])
       IN  IF st_in.algorithm = "hdbscan"
           THEN \E labels \in HdbscanLabelings(n) :
                  /\ st_locals' = [st_locals EXCEPT !.cluster_labels = labels]
                  /\ st_pc' = "copy"
           ELSE \/ /\ \A k \in StageKs : k > n
                   /\ st_pc' = "raised"
                   /\ st_locals' = st_locals
                \/ \E k \in StageKs, labels \in [1..n -> 0..(n - 1)] :
                   /\ k <= n
                   /\ Range(labels) = 0..(k - 1)
                   /\ st_locals' = [st_locals EXCEPT !.cluster_labels = labels]
                   /\ st_pc' = "copy"
    /\ UNCHANGED <<st_in, heap>>

\* lines 330 and 236: songs_df_clustered = songs_df.copy()
StCopy ==
    /\ UNCHANGED stFrame
    /\ st_pc = "copy"
    /\ LET copied == CopyTable(heap, st_in.songs_df)
       IN  /\ heap' = copied.heap
           /\ st_locals' = [st_locals EXCEPT !.songs_df_clustered = copied.ref]
    /\ st_pc' = "assign"
    /\ UNCHANGED st_in

\* lines 331 and 237: songs_df_clustered['cluster'] = cluster_labels
StAssign ==
    /\ UNCHANGED stFrame
    /\ st_pc = "assign"
    /\ heap' = [heap EXCEPT ![st_locals.songs_df_clustered] =
                    SetClusterColumn(@, st_locals.cluster_labels)]
    /\ st_pc' = "score"
    /\ UNCHANGED <<st_in, st_locals>>

\* lines 334-337 and 262-272: the silhouette score, then the return of
\* (songs_df_clustered, model, scaler)
StReturn ==
    /\ UNCHANGED stFrame
    /\ st_pc = "score"
    /\ LET labels == st_locals.cluster_labels
           masked == WithoutNoise(labels)
           scored == IF st_in.algorithm = "kmeans" THEN labels ELSE masked
           asked  == \/ st_in.algorithm = "kmeans"
                     \/ (CountClusters(labels) > 1 /\ Len(masked) > 1)
       IN  st_pc' = IF asked /\ SilhouetteRaises(scored) THEN "raised" ELSE "returned"
    /\ UNCHANGED <<st_in, st_locals, heap>>

StageInit ==
    /\ st_in \in StageInputs
    /\ st_pc = "call"
    /\ st_locals = NoLocals
    /\ heap = <<st_in.table, st_in.matrix>>
    /\ MainIdle /\ MatIdle /\ CmpIdle /\ KmIdle /\ FunctionsIdle
    /\ TkIdle /\ GeIdle /\ DpIdle

StageNext ==
    \/ StScale
    \/ StFit
    \/ StCopy
    \/ StAssign
    \/ StReturn

SpecStage == StageInit /\ [][StageNext]_vars

\* the row without its cluster label
WithoutCluster(row) == [f \in DOMAIN row \ {"cluster"} |-> row[f]]

\* C22: perform_kmeans_clustering and perform_hdbscan_clustering leave the
\* record table and the embedding matrix they are given unchanged, with
\* normalization on or off, and return a new table that has the same rows in
\* the same order and one cluster label per row.
C22_StageLeavesItsInputs ==
    /\ st_pc # "idle" =>
          /\ heap[st_in.songs_df] = st_in.table
          /\ heap[st_in.embeddings] = st_in.matrix
    /\ st_pc = "returned" =>
          LET out == heap[st_locals.songs_df_clustered]
          IN  /\ st_locals.songs_df_clustered # st_in.songs_df
              /\ Len(out) = Len(st_in.table)
              /\ \A i \in 1..Len(out) :
                    /\ DOMAIN out[i] = DOMAIN st_in.table[i] \cup {"cluster"}
                    /\ WithoutCluster(out[i]) = st_in.table[i]
                    /\ out[i].cluster = st_locals.cluster_labels[i]

\* a returned table of three labelled rows, clustered on the caller's matrix
C22_Witness ==
    /\ st_pc = "returned"
    /\ ~st_in.normalize
    /\ st_locals.embeddings_scaled = st_in.embeddings
    /\ Len(heap[st_locals.songs_df_clustered]) = 3
    /\ Range(st_locals.cluster_labels) = {0, 1}

(***************************************************************************)
(* SpecGenerate: generate_audio_embeddings_csv (generate_embeddings.py).   *)
(* The main thread submits one task per track to a ThreadPoolExecutor and  *)
(* then takes the results; the pool's threads run process_single_embedding *)
(* at the same time.  A task waits in the executor's FIFO queue until one  *)
(* of the max_workers threads is free.  What get_audio_embeddings does for *)
(* a track (return, or raise an Exception) is part of the input.           *)
(***************************************************************************)
MaxTracks == 3    \* tracks handed to generate_audio_embeddings_csv
MaxWorkers == 2   \* largest max_workers tried

TEST_MODE_TRACKS == 3

\* the CSV row process_single_embedding builds for a track
RowOf(track_data) ==
    [song_name |-> track_data.name, artist |-> track_data.artists,
     song_uri |-> track_data.external_url]

\* process_single_embedding: every Exception becomes a result without success
process_single_embedding(track_data) ==
    IF track_data.embeds
    THEN [success |-> TRUE, data |-> RowOf(track_data), track |-> track_data]
    ELSE [success |-> FALSE, data |-> <<>>, track |-> track_data]

TrackFileLists ==
    {[i \in 1..Len(flags) |->
        [name |-> i, artists |-> "x", external_url |-> WEB_URI, embeds |-> flags[i]]]
     : flags \in SeqsUpTo(BOOLEAN, MaxTracks) \ {<<>>}}

GenerateInputs ==
    [track_files : TrackFileLists, test_mode : BOOLEAN, max_workers : 1..MaxWorkers]

\* lines 94-95: track_files[:3] in test mode
TracksToProcess(in) ==
    IF in.test_mode /\ Len(in.track_files) > TEST_MODE_TRACKS
    THEN SubSeq(in.track_files, 1, TEST_MODE_TRACKS)
    ELSE in.track_files

Running(futs) == {t \in 1..Len(futs) : futs[t].state = "running"}

Queued(futs) == {t \in 1..Len(futs) : futs[t].state = "pending"}

\* a loop that takes the results as they complete
NextFuture_AsCompleted(futs, taken) ==
    {t \in 1..Len(futs) : t \notin Range(taken)}

\* line 140: for future in future_to_track, a dict, in insertion order
NextFuture(futs, taken) == {t \in 1..Len(futs) : t = Len(taken) + 1}

geFrame == <<mainVars, matVars, cmpVars, kmVars, cvVars, ldVars, hdbVars, rtVars,
             tkVars, stVars, dpVars>>

\* lines 103-112: open the files and write the headers
GeOpen ==
    /\ UNCHANGED geFrame
    /\ ge_pc = "call"
    /\ ge_pc' = "submit"
    /\ UNCHANGED <<ge_in, futures, collected, csv_rows>>

\* lines 134-137: executor.submit for the next track of the list
GeSubmit ==
    /\ UNCHANGED geFrame
    /\ ge_pc = "submit"
    /\ Len(futures) < Len(TracksToProcess(ge_in))
    /\ futures' = Append(futures,
                     [state |-> "pending", result |-> <<>>,
                      track |-> TracksToProcess(ge_in)[Len(futures) + 1]])
    /\ UNCHANGED <<ge_pc, ge_in, collected, csv_rows>>

\* the dict of the futures is complete: the loop of line 140 starts
GeSubmitted ==
    /\ UNCHANGED geFrame
    /\ ge_pc = "submit"
    /\ Len(futures) = Len(TracksToProcess(ge_in))
    /\ ge_pc' = "collect"
    /\ UNCHANGED <<ge_in, futures, collected, csv_rows>>

\* a free thread of the pool takes the task at the head of the queue
GeWorkerStart ==
    /\ UNCHANGED geFrame
    /\ Queued(futures) # {}
    /\ Cardinality(Running(futures)) < ge_in.max_workers
    /\ LET t == CHOOSE q \in Queued(futures) : \A r \in Queued(futures) : q <= r
       IN  futures' = [futures EXCEPT ![t].state = "running"]
    /\ UNCHANGED <<ge_pc, ge_in, collected, csv_rows>>

\* lines 69-90: a running process_single_embedding returns its result
GeWorkerFinish ==
    /\ UNCHANGED geFrame
    /\ \E t \in Running(futures) :
         futures' = [futures EXCEPT ![t].state = "done",
                                    ![t].result = process_single_embedding(futures[t].track)]
    /\ UNCHANGED <<ge_pc, ge_in, collected, csv_rows>>

\* lines 140-161: future.result() of the next future waits until the task is
\* done; a success is written under write_lock (which no other thread takes)
GeCollect ==
    /\ UNCHANGED geFrame
    /\ ge_pc = "collect"
    /\ \E t \in NextFuture(futures, collected) :
         /\ futures[t].state = "done"
         /\ collected' = Append(collected, t)
         /\ csv_rows' = IF futures[t].result.success
                         THEN Append(csv_rows, futures[t].result.data)
                         ELSE csv_rows
    /\ UNCHANGED <<ge_pc, ge_in, futures>>

\* the loop has taken every future: the executor and the files are closed
GeClose ==
    /\ UNCHANGED geFrame
    /\ ge_pc = "collect"
    /\ Len(collected) = Len(futures)
    /\ ge_pc' = "returned"
    /\ UNCHANGED <<ge_in, futures, collected, csv_rows>>

GenerateInit ==
    /\ ge_in \in GenerateInputs
    /\ ge_pc = "call"
    /\ futures = <<>>
    /\ collected = <<>>
    /\ csv_rows = <<>>
    /\ MainIdle /\ MatIdle /\ CmpIdle /\ KmIdle /\ FunctionsIdle
    /\ TkIdle /\ StIdle /\ DpIdle

GenerateNext ==
    \/ GeOpen
    \/ GeSubmit
    \/ GeSubmitted
    \/ GeWorkerStart
    \/ GeWorkerFinish
    \/ GeCollect
    \/ GeClose

SpecGenerate == GenerateInit /\ [][GenerateNext]_vars

RECURSIVE RowsOfSucceeded(_)
\* the rows of the tracks whose embedding succeeds, in the order of the list
RowsOfSucceeded(tracks) ==
    IF tracks = <<>> THEN <<>>
    ELSE IF Head(tracks).embeds
         THEN <<RowOf(Head(tracks))>> \o RowsOfSucceeded(Tail(tracks))
         ELSE RowsOfSucceeded(Tail(tracks))

\* C29: whatever the interleaving and the completion order of the workers,
\* the rows in the CSV file are those of the tracks whose embedding
\* succeeded among the tracks taken so far, in the order of the track list;
\* at the end every such track of the list has its row, and a track whose
\* worker failed has none.
C29_RowsInTrackOrder ==
    ge_pc \in {"submit", "collect", "returned"} =>
        LET tracks == TracksToProcess(ge_in)
        IN  /\ csv_rows = RowsOfSucceeded(SubSeq(tracks, 1, Len(collected)))
            /\ ge_pc = "returned" => csv_rows = RowsOfSucceeded(tracks)

\* three tracks of which the second failed: the first and the last have
\* their rows, in this order
C29_Witness ==
    /\ ge_pc = "returned"
    /\ Len(futures) = 3
    /\ ~ge_in.track_files[2].embeds
    /\ Len(csv_rows) = 2
    /\ csv_rows[1].song_name = 1
    /\ csv_rows[2].song_name = 3

(***************************************************************************)
(* SpecDelete: SpotifyPlaylistDeleter.delete_playlists_with_phrase         *)
(* (delete_playlists_by_phrase.py).  A text is a sequence of letters; an   *)
(* answer is what the user types, before .strip().lower().  events is the  *)
(* history of the answers read and of the DELETE requests made.            *)
(***************************************************************************)
MaxPlaylists == 2   \* playlists the service lists for GET /v1/me/playlists

\* str.lower() of one letter
LowerLetter(c) == IF c = "A" THEN "a" ELSE IF c = "B" THEN "b" ELSE c

\* str.lower()
Lower(text) == [i \in 1..Len(text) |-> LowerLetter(text[i])]

\* phrase in text
IsSubstring(phrase, text) ==
    \E k \in 0..(Len(text) - Len(phrase)) :
        \A i \in 1..Len(phrase) : text[k + i] = phrase[i]

\* lines 129-135: the test of one playlist name
NameMatches(phrase, name, case_sensitive) ==
    IF case_sensitive THEN IsSubstring(phrase, name)
    ELSE IsSubstring(Lower(phrase), Lower(name))

\* a test that takes every listed playlist for the user's own
OwnedBy_Anyone(playlist, user_id) == TRUE

\* line 100: playlist['owner']['id'] == self.user_id
OwnedBy(playlist, user_id) == playlist.owner = user_id

RECURSIVE SelectPlaylists(_, _, _, _)
\* get_user_playlists, then the filter of find_playlists_with_phrase, in the
\* order of the listing
SelectPlaylists(items, user_id, phrase, case_sensitive) ==
    IF items = <<>> THEN <<>>
    ELSE LET rest == SelectPlaylists(Tail(items), user_id, phrase, case_sensitive)
         IN  IF OwnedBy(Head(items), user_id)
                /\ NameMatches(phrase, Head(items).name, case_sensitive)
             THEN <<Head(items)>> \o rest
             ELSE rest

\* input(...).strip().lower()
Typed(answer) ==
    IF answer = "Y" THEN "y" ELSE IF answer = "YES" THEN "yes" ELSE answer

AnswersEach == {"y", "Y", "n", "q"}
AnswersAll == {"yes", "YES", "y", "no"}

PlaylistNames == {<<"A", "b">>, <<"a", "b">>, <<"b">>}
Phrases == {<<"a">>, <<"A">>}

ServiceListings ==
    {[i \in 1..Len(l) |-> [id |-> i, name |-> l[i][1], owner |-> l[i][2]]]
     : l \in SeqsUpTo(PlaylistNames \X {"me", "other"}, MaxPlaylists)}

DeleteInputs ==
    [phrase : Phrases, case_sensitive : BOOLEAN, confirm_each : BOOLEAN,
     user_id : {"me"}, items : ServiceListings]

NoDeletion ==
    [matching |-> <<>>, i |-> 1, found |-> 0, deleted |-> 0, skipped |-> 0,
     errors |-> 0, events |-> <<>>]

dpFrame == <<mainVars, matVars, cmpVars, kmVars, cvVars, ldVars, hdbVars, rtVars,
             tkVars, stVars, geVars>>

\* lines 143-158: find the playlists (a failed request raises), return at
\* once if there is none
DpFind ==
    /\ UNCHANGED dpFrame
    /\ dp_pc = "call"
    /\ \/ /\ dp_pc' = "raised"
          /\ dp_out' = dp_out
       \/ LET matching == SelectPlaylists(dp_in.items, dp_in.user_id, dp_in.phrase,
                                          dp_in.case_sensitive)
          IN  /\ dp_out' = [dp_out EXCEPT !.matching = matching, !.found = Len(matching)]
              /\ dp_pc' = IF matching = <<>> THEN "returned"
                          ELSE IF dp_in.confirm_each THEN "loop" ELSE "confirm_all"
    /\ UNCHANGED dp_in

\* lines 160-170: one confirmation for the whole set
DpConfirmAll ==
    /\ UNCHANGED dpFrame
    /\ dp_pc = "confirm_all"
    /\ \E answer \in AnswersAll :
         LET asked == Append(dp_out.events, [kind |-> "answer", id |-> 0, text |-> answer])
         IN  IF Typed(answer) # "yes"
             THEN /\ dp_out' = [dp_out EXCEPT !.events = asked, !.skipped = dp_out.found]
                  /\ dp_pc' = "returned"
             ELSE /\ dp_out' = [dp_out EXCEPT !.events = asked]
                  /\ dp_pc' = "loop"
    /\ UNCHANGED dp_in

\* lines 180-199: the loop's next playlist; in confirm-each mode its question
DpAsk ==
    /\ UNCHANGED dpFrame
    /\ dp_pc = "loop"
    /\ dp_out.i <= Len(dp_out.matching)
    /\ IF ~dp_in.confirm_each
       THEN dp_pc' = "unfollow" /\ dp_out' = dp_out
       ELSE \E answer \in AnswersEach :
              LET asked == Append(dp_out.events,
                                  [kind |-> "answer", id |-> dp_out.matching[dp_out.i].id,
                                   text |-> answer])
              IN  IF Typed(answer) = "q"
                  THEN /\ dp_out' = [dp_out EXCEPT !.events = asked]
                       /\ dp_pc' = "returned"
                  ELSE IF Typed(answer) # "y"
                  THEN /\ dp_out' = [dp_out EXCEPT !.events = asked,
                                                   !.skipped = @ + 1, !.i = @ + 1]
                       /\ dp_pc' = "loop"
                  ELSE /\ dp_out' = [dp_out EXCEPT !.events = asked]
                       /\ dp_pc' = "unfollow"
    /\ UNCHANGED dp_in

\* lines 200-224: the DELETE request: 200, another status, or an exception
DpUnfollow ==
    /\ UNCHANGED dpFrame
    /\ dp_pc = "unfollow"
    /\ \E response \in {"200", "other", "raised"} :
         dp_out' = [dp_out EXCEPT
                       !.events  = Append(@, [kind |-> "unfollow",
                                              id |-> dp_out.matching[dp_out.i].id,
                                              text |-> response]),
                       !.deleted = IF response = "200" THEN @ + 1 ELSE @,
                       !.errors  = IF response = "200" THEN @ ELSE @ + 1,
                       !.i = @ + 1]
    /\ dp_pc' = "loop"
    /\ UNCHANGED dp_in

\* line 226: the loop is over
DpReturn ==
    /\ UNCHANGED dpFrame
    /\ dp_pc = "loop"
    /\ dp_out.i > Len(dp_out.matching)
    /\ dp_pc' = "returned"
    /\ UNCHANGED <<dp_in, dp_out>>

DeleteInit ==
    /\ dp_in \in DeleteInputs
    /\ dp_pc = "call"
    /\ dp_out = NoDeletion
    /\ MainIdle /\ MatIdle /\ CmpIdle /\ KmIdle /\ FunctionsIdle
    /\ TkIdle /\ StIdle /\ GeIdle

DeleteNext ==
    \/ DpFind
    \/ DpConfirmAll
    \/ DpAsk
    \/ DpUnfollow
    \/ DpReturn

SpecDelete == DeleteInit /\ [][DeleteNext]_vars

\* the positions in events of the DELETE requests
Unfollows == {e \in 1..Len(dp_out.events) : dp_out.events[e].kind = "unfollow"}

\* the deletion of the playlist was confirmed before event e
ConfirmedBefore(e, id) ==
    \E a \in 1..(e - 1) :
        /\ dp_out.events[a].kind = "answer"
        /\ IF dp_in.confirm_each
           THEN dp_out.events[a].id = id /\ Typed(dp_out.events[a].text) = "y"
           ELSE Typed(dp_out.events[a].text) = "yes"

\* C30: a playlist is unfollowed only if the current user owns it, its name
\* contains the phrase (whatever the case, unless case_sensitive is set) and
\* its deletion was confirmed: 'y' for it in confirm-each mode, 'yes' for the
\* whole set otherwise; nothing is unfollowed after the answer 'q'; and
\* deleted + skipped + errors never exceeds found.
C30_UnfollowsOnlyConfirmedOwnMatches ==
    dp_pc # "idle" =>
        /\ \A e \in Unfollows :
              \E p \in 1..Len(dp_in.items) :
                  LET playlist == dp_in.items[p]
                  IN  /\ playlist.id = dp_out.events[e].id
                      /\ playlist.owner = dp_in.user_id
                      /\ IF dp_in.case_sensitive
                         THEN IsSubstring(dp_in.phrase, playlist.name)
                         ELSE IsSubstring(Lower(dp_in.phrase), Lower(playlist.name))
                      /\ ConfirmedBefore(e, playlist.id)
        /\ \A a \in 1..Len(dp_out.events) :
              (dp_out.events[a].kind = "answer" /\ Typed(dp_out.events[a].text) = "q")
                  => \A e \in Unfollows : e < a
        /\ dp_out.deleted + dp_out.skipped + dp_out.errors <= dp_out.found

\* one playlist unfollowed after 'Y', then 'q' before the second
C30_Witness ==
    /\ dp_pc = "returned"
    /\ dp_in.confirm_each
    /\ dp_out.found = 2
    /\ dp_out.deleted = 1
    /\ Len(dp_out.events) = 3
    /\ dp_out.events[1].text = "Y"
    /\ dp_out.events[3].text = "q"

====
